---- MODULE Spec2Model ----
(***************************************************************************)
(* Key discovery and encryption orchestration of Mailvelope:               *)
(*   - parseKeysForEMail, the WKD key filter        (SpecParse)            *)
(*   - WKDLocate.lookup, the bounded WKD fetch      (SpecWKD)              *)
(*   - AutoLocate.locate, the discovery bridge      (SpecLocate)           *)
(*   - EditorController, the compose state machine  (SpecEditor)           *)
(*   - EditorController.decryptArmored              (SpecDecrypt)          *)
(*   - encodeZBase32, the encoding of the WKD path  (SpecZBase32)          *)
(*   - KeyringBase.getFprForKeyId                   (SpecKeyring)          *)
(*   - KeyringBase, default key and key data        (SpecRegistry)         *)
(*   - EditorController, the sign-only flow         (SpecSign)             *)
(* Each part has its own variables; a specification of one part leaves the *)
(* variables of the other parts at their idle values.                      *)
(***************************************************************************)
EXTENDS Integers, Sequences, FiniteSets, TLC

VARIABLES
  \* ---- parseKeysForEMail ----
  pPc,        \* "idle" | "read" | "loop" | "done"
  pEmail,     \* the queried email (a sequence of characters)
  pOnlyOne,   \* the onlyOne argument
  pAcc,       \* [candidate, keptArmoredKeys, threw]: the locals of the forEach
  pCount,     \* number of keys of result.keys inspected so far
  pMatched,   \* history: [id, valid, created, nUsers] of every inspected key with a matching identity
  pDropped,   \* history: ids of the inspected keys with no matching identity
  pResult     \* <<>> while running, else <<[ok |-> ..., ...]>>

parseVars == <<pPc, pEmail, pOnlyOne, pAcc, pCount, pMatched, pDropped, pResult>>

VARIABLES
  \* ---- WKDLocate.lookup ----
  wPc,          \* "idle" | "start" | "fetching" | "reading" | "done"
  wEmail,       \* the email argument
  wOnlyOne,     \* the onlyOne argument
  wBlacklist,   \* this.blacklist
  wTested,      \* history: the domain compared with the blacklist
  wUrl,         \* <<>>, or <<url>> once window.fetch(url) was called
  wFetch,       \* the fetch promise: "none" | "pending" | "resolved" | "rejected"
  wTimer,       \* the timer of timeout(): "unarmed" | "armed" | "fired"
  wTimerMs,     \* the delay the timer was armed with
  wStatus,      \* response.status, 0 before a response
  wTotal,       \* total of sizeLimitResponse
  wResults,     \* results of sizeLimitResponse
  wDelivered,   \* history: the chunks the body reader has delivered
  wData,        \* <<>>, or <<data>> once the bounded read returned data
  wOutcome,     \* <<>> while lookup is pending, else <<what it returned or threw>>
  wOpenAtFire   \* history: lookup was still pending when the timer fired

wkdVars == <<wPc, wEmail, wOnlyOne, wBlacklist, wTested, wUrl, wFetch, wTimer,
             wTimerMs, wStatus, wTotal, wResults, wDelivered, wData, wOutcome,
             wOpenAtFire>>

VARIABLES
  \* ---- AutoLocate.locate ----
  lPc,        \* "idle" | "start" | "keyserver" | "wkd" | "import" | "done"
  lEmail,     \* options.email: <<>> when the query has none
  lPrefs,     \* prefs.keyserver: [mvelo_tofu_lookup, wkd_lookup]
  lArmored,   \* the local armored: <<>> while undefined
  lCalls,     \* history: the collaborators called, in order
  lKsYield,   \* history: the armored key the keyserver answered with, if any
  lWkdYield,  \* history: the armored key wkd.lookup returned, if any
  lImports,   \* history: the arguments of the importKeys calls
  lReturned   \* "pending" | "returned" | "threw"

locVars == <<lPc, lEmail, lPrefs, lArmored, lCalls, lKsYield, lWkdYield, lImports,
             lReturned>>

VARIABLES
  \* ---- EditorController ----
  eKind,          \* the caller context: "popup" | "container" | "text"
  eStore,         \* the keyrings: keyring id -> [keys, primary]
  eAutoAdd,       \* prefs.general.auto_add_primary
  eKeyringId,     \* this.keyringId
  ePgpMIME,       \* this.pgpMIME
  eReason,        \* this.options.reason: <<>> while unset
  eKeyFprBuffer,  \* this.keyFprBuffer: <<>> while undefined, else <<list>>
  eEditorPopup,   \* this.editorPopup is set
  ePopupOpening,  \* mvelo.windows.openPopup has not resolved yet
  ePromises,      \* the promises encrypt()/encryptText() returned: [state, by, code]
  eEncryptDone,   \* this.encryptDone: index into ePromises, 0 while null
  eEncryptTimer,  \* this.encryptTimer: job of the timer it holds, 0 for none
  eTimers,        \* jobs whose 800 ms timer is armed
  eJobs,          \* the runs of onEditorPlaintext, with the events each emitted
  eEditorOut,     \* events the request handlers emitted to the editor, in order
  eContOut,       \* events the request handlers emitted to the container, in order
  eAwaited,       \* the 'get-plaintext' requests the editor has not answered, in
                  \* order: [draft, keyFprs] with the fingerprints resolved for it
  eJobLimit,      \* 'editor-plaintext' messages the editor sends in this session
  eSeq,           \* history: number of messages handled
  eLast           \* history: the message handled last

edVars == <<eKind, eStore, eAutoAdd, eKeyringId, ePgpMIME, eReason, eKeyFprBuffer,
            eEditorPopup, ePopupOpening, ePromises, eEncryptDone, eEncryptTimer,
            eTimers, eJobs, eEditorOut, eContOut, eAwaited, eJobLimit, eSeq, eLast>>

VARIABLES
  \* ---- EditorController, the decrypt path ----
  dPc,            \* "idle" | "init" | "timer" | "decrypt" | "parse" | "done"
  dPopup,         \* this.editorPopup is set
  dOptions,       \* this.options
  dLarge,         \* the armored text has more than 400000 characters
  dInit,          \* history of onEditorOptions: [scheduled, text], the option
                  \* whose text scheduleDecrypt got ("none" without call) and
                  \* whether data.text of 'set-init-data' was set
  dUnlock,        \* the unlockKey callback: "none" | "ok" | "failed"
  dDecrypted,     \* what model.decryptMessage resolved with, <<>> before
  dParts,         \* the parts parseMessage has not handed to the handlers yet
  dEditorOut      \* events emitted to the editor, in order

decVars == <<dPc, dPopup, dOptions, dLarge, dInit, dUnlock, dDecrypted, dParts, dEditorOut>>

VARIABLES
  \* ---- encodeZBase32 ----
  zPc,            \* "idle" | "call" | "loop" | "done"
  zData,          \* data, the bytes to encode
  zBuffer,        \* buffer, a 32 bit integer once it has been shifted
  zIndex,         \* index, counted from 0 as the code does
  zBitsLeft,      \* bitsLeft
  zResult,        \* result
  zWrapped        \* history: a shift of buffer has dropped bits

zbVars == <<zPc, zData, zBuffer, zIndex, zBitsLeft, zResult, zWrapped>>

VARIABLES
  \* ---- KeyringBase ----
  kKeystore,      \* this.keystore: the keys of the keyring, in store order
  kCalls          \* history: the calls of getFprForKeyId, [keyId, code, fpr]

krVars == <<kKeystore, kCalls>>

VARIABLES
  \* ---- KeyringBase, default key and key data ----
  rKeys,          \* the keys of this.keystore, public and private
  rDefault,       \* the default key fingerprint the keystore holds, <<>> for none
  rLast           \* history: the call made last and what it returned

regVars == <<rKeys, rDefault, rLast>>

VARIABLES
  \* ---- EditorController, the sign-only flow ----
  sPc,            \* "idle" | "ready" | "unlock" | "plaintext" | "sign" | "done"
  sRing,          \* the private keys of the main keyring: fingerprint -> the
                  \* version of the key object in the store, 0 when there is none
  sSignKey,       \* this.signKey: [fpr, key], key <<>> for null, else <<version>>
  sUnlock,        \* how pwdControl.unlockKey settled: "none" | "ok" | an error code
  sTimer,         \* the timer of signMessage is armed
  sSignCall,      \* history: model.signMessage was called: <<[key, current]>>, the
                  \* key handed over and the key the keyring held then
  sOut            \* the events emitted, in order

signVars == <<sPc, sRing, sSignKey, sUnlock, sTimer, sSignCall, sOut>>

vars == <<parseVars, wkdVars, locVars, edVars, decVars, zbVars, krVars, regVars, signVars>>

\* the variables an action of one part leaves alone
notParse == <<wkdVars, locVars, edVars, decVars, zbVars, krVars, regVars, signVars>>
notWkd == <<parseVars, locVars, edVars, decVars, zbVars, krVars, regVars, signVars>>
notLoc == <<parseVars, edVars, decVars, zbVars, krVars, regVars, signVars>>
notEd == <<parseVars, wkdVars, locVars, decVars, zbVars, krVars, regVars, signVars>>
notDec == <<parseVars, wkdVars, locVars, edVars, zbVars, krVars, regVars, signVars>>
notZb == <<parseVars, wkdVars, locVars, edVars, decVars, krVars, regVars, signVars>>
notKr == <<parseVars, wkdVars, locVars, edVars, decVars, zbVars, regVars, signVars>>
notReg == <<parseVars, wkdVars, locVars, edVars, decVars, zbVars, krVars, signVars>>
notSign == <<parseVars, wkdVars, locVars, edVars, decVars, zbVars, krVars, regVars>>

-----------------------------------------------------------------------------
(* Bounds *)
MaxKeys == 2        \* keys in one WKD response
MaxCreated == 2     \* distinct creation times of primary keys
MaxAddrLen == 3     \* characters of an address handed to WKDLocate.lookup
MaxChunks == 3      \* chunks of one response body
MaxJobs == 1        \* 'editor-plaintext' messages of one session
MaxAttempts == 2    \* 'editor-plaintext' messages of a session with a retry
MaxRequests == 2    \* container requests or encryptText calls of one session
MaxSignatures == 2  \* signatures of one decryption result
MaxParts == 2       \* text and attachment parts of one decrypted message
MaxBytes == 6       \* bytes handed to encodeZBase32
MaxStoreKeys == 3   \* keys of one keyring
MaxLookups == 2     \* calls of getFprForKeyId on one keyring
MaxRingKeys == 2    \* keys of a keyring whose default key is managed
MaxKeyVersions == 2 \* imports that put a new key object under one fingerprint

-----------------------------------------------------------------------------
(* Strings are sequences of one-character strings. *)

None == <<>>
Some(x) == <<x>>

LowerChar(c) ==
  CASE c = "A" -> "a"
    [] c = "B" -> "b"
    [] c = "X" -> "x"
    [] OTHER -> c

\* String.prototype.toLowerCase
ToLowerCase(s) == [i \in 1..Len(s) |-> LowerChar(s[i])]

\* positions of '@' in s
AtPositions(s) == {i \in 1..Len(s) : s[i] = "@"}

LastAt(s) == CHOOSE i \in AtPositions(s) : \A j \in AtPositions(s) : j <= i

\* mapKeyUserIds (modules/key): user.email is the address of the user id when
\* it is a valid address, and '' otherwise.
MapKeyUserIds(userid) ==
  IF /\ AtPositions(userid) # {}
     /\ LastAt(userid) > 1
     /\ LastAt(userid) < Len(userid)
  THEN userid
  ELSE <<>>

-----------------------------------------------------------------------------
(* parseKeysForEMail *)

\* a user packet with a user id, and a user attribute packet (userId is null)
UserOf(userid) == [userId |-> Some(userid)]
UserAttribute == [userId |-> None]

\* the user packets a directory may put on one key: the queried address in
\* either case, another address, a user id that is no address, an attribute
UserLists ==
  LET a == UserOf(<<"a", "@", "x">>)
      A == UserOf(<<"A", "@", "X">>)
      b == UserOf(<<"b", "@", "x">>)
      n == UserOf(<<"a">>)
  IN {<<a>>, <<A>>, <<b>>, <<n>>, <<a, A>>, <<a, b>>, <<b, A>>, <<n, b>>,
      <<b, a, n>>, <<UserAttribute>>, <<a, UserAttribute>>}

\* addresses parseKeysForEMail is called with (lookup has let them pass)
QueryEmails == {<<"a", "@", "x">>, <<"A", "@", "x">>}

\* key.verifyPrimaryKey() === openpgp.enums.keyStatus.valid
VerifyPrimaryKeyValid(key) == key.status = "valid"

\* user.userId.userid of a user attribute packet throws a TypeError
UserThrows(user) == user.userId = None

\* the test of the inner forEach: the user is kept
UserMatches(user, email) ==
  ToLowerCase(MapKeyUserIds(user.userId[1])) = ToLowerCase(email)

KeptUsersUnfiltered(key, email) == key.users

\* keptUsers after key.users.forEach
KeptUsers(key, email) == SelectSeq(key.users, LAMBDA u : UserMatches(u, email))

PreferNewIgnoringValidity(key, cand) == key.created > cand.created

\* the choice between the candidate and a further key with kept users
PreferNew(key, cand) ==
  LET newValid == VerifyPrimaryKeyValid(key)
      oldValid == VerifyPrimaryKeyValid(cand)
  IN \/ newValid /\ ~oldValid
     \/ newValid = oldValid /\ key.created > cand.created

\* The body of result.keys.forEach for one key
InspectKey(acc, key, email, onlyOne) ==
  IF acc.threw THEN acc
  ELSE IF \E i \in 1..Len(key.users) : UserThrows(key.users[i])
  THEN [acc EXCEPT !.threw = TRUE]
  ELSE LET keptUsers == KeptUsers(key, email)
           kept == [key EXCEPT !.users = keptUsers]
       IN IF Len(keptUsers) > 0
          THEN IF onlyOne
               THEN IF acc.candidate = None
                    THEN [acc EXCEPT !.candidate = Some(kept)]
                    ELSE IF PreferNew(kept, acc.candidate[1])
                         THEN [acc EXCEPT !.candidate = Some(kept)]
                         ELSE acc
               ELSE [acc EXCEPT !.keptArmoredKeys = Append(@, kept)]
          ELSE acc

EmptyAcc == [candidate |-> None, keptArmoredKeys |-> <<>>, threw |-> FALSE]

\* What parseKeysForEMail returns or throws after the forEach
ParseOutcome(acc, onlyOne) ==
  IF acc.threw
  THEN [ok |-> FALSE, error |-> "WKD: Error handling keys", keys |-> <<>>]
  ELSE IF onlyOne /\ acc.candidate # None
  THEN [ok |-> TRUE, error |-> "", keys |-> acc.candidate]
  ELSE IF Len(acc.keptArmoredKeys) > 0
  THEN [ok |-> TRUE, error |-> "", keys |-> acc.keptArmoredKeys]
  ELSE [ok |-> FALSE, error |-> "WKD: Error handling keys", keys |-> <<>>]

ReadError == [ok |-> FALSE, error |-> "WKD: Failed to parse result", keys |-> <<>>]

RECURSIVE FoldKeys(_, _, _, _)
FoldKeys(acc, keys, email, onlyOne) ==
  IF keys = <<>> THEN acc
  ELSE FoldKeys(InspectKey(acc, Head(keys), email, onlyOne), Tail(keys), email, onlyOne)

\* parseKeysForEMail on the keys openpgp.key.read returned
ParseKeysForEMail(data, email, onlyOne) ==
  IF data.err THEN ReadError
  ELSE ParseOutcome(FoldKeys(EmptyAcc, data.keys, email, onlyOne), onlyOne)

ParseIdle ==
  /\ pPc = "idle"
  /\ pEmail = <<>>
  /\ pOnlyOne = FALSE
  /\ pAcc = EmptyAcc
  /\ pCount = 0
  /\ pMatched = {}
  /\ pDropped = {}
  /\ pResult = None

InitParse ==
  /\ pPc = "read"
  /\ pEmail \in QueryEmails
  /\ pOnlyOne \in BOOLEAN
  /\ pAcc = EmptyAcc
  /\ pCount = 0
  /\ pMatched = {}
  /\ pDropped = {}
  /\ pResult = None

\* openpgp.key.read(data): result.err ends the call before the loop
ParseRead ==
  /\ pPc = "read"
  /\ \E err \in BOOLEAN :
       IF err
       THEN /\ pResult' = Some(ReadError)
            /\ pPc' = "done"
       ELSE /\ pResult' = pResult
            /\ pPc' = "loop"
  /\ UNCHANGED <<pEmail, pOnlyOne, pAcc, pCount, pMatched, pDropped, notParse>>

\* an identity of the key names the queried address, ignoring case
HasMatchingIdentity(key, email) ==
  \E i \in 1..Len(key.users) :
    /\ key.users[i].userId # None
    /\ ToLowerCase(MapKeyUserIds(key.users[i].userId[1])) = ToLowerCase(email)

\* one iteration of result.keys.forEach, on the next key of the response
ParseInspect ==
  /\ pPc = "loop"
  /\ pCount < MaxKeys
  /\ ~pAcc.threw
  /\ \E users \in UserLists, status \in {"valid", "revoked"}, created \in 1..MaxCreated :
       LET key == [id |-> pCount + 1, users |-> users, status |-> status,
                   created |-> created]
       IN /\ pAcc' = InspectKey(pAcc, key, pEmail, pOnlyOne)
          /\ pMatched' = IF HasMatchingIdentity(key, pEmail)
                         THEN pMatched \cup {[id |-> key.id, valid |-> status = "valid",
                                              created |-> created,
                                              nUsers |-> Len(users)]}
                         ELSE pMatched
          /\ pDropped' = IF HasMatchingIdentity(key, pEmail)
                         THEN pDropped
                         ELSE pDropped \cup {key.id}
  /\ pCount' = pCount + 1
  /\ UNCHANGED <<pPc, pEmail, pOnlyOne, pResult, notParse>>

\* the end of the forEach (or the throw out of it): return or throw
ParseFinish ==
  /\ pPc = "loop"
  /\ pResult' = Some(ParseOutcome(pAcc, pOnlyOne))
  /\ pPc' = "done"
  /\ UNCHANGED <<pEmail, pOnlyOne, pAcc, pCount, pMatched, pDropped, notParse>>

NextParse == ParseRead \/ ParseInspect \/ ParseFinish

-----------------------------------------------------------------------------
(* WKDLocate *)

TIMEOUT == 5        \* this.TIMEOUT, seconds
SIZE_LIMIT == 64    \* this.SIZE_LIMIT, KiB

AddrChars == {"a", "x", "X", "@"}

Addresses == UNION {[1..n -> AddrChars] : n \in 0..MaxAddrLen}

\* values of prefs.keyserver.wkd_blacklist
Blacklists == {<<>>, << <<"x">> >>, << <<"a">>, <<"X">> >>}

SubSeqFrom(s, i) == [k \in 1..(Len(s) - i + 1) |-> s[i + k - 1]]

\* /(.*)@(.*)/.exec(s): the greedy match splits at the last '@'; <<>> is null
RegexSplit(s) ==
  IF AtPositions(s) = {} THEN None
  ELSE Some([localPart |-> SubSeq(s, 1, LastAt(s) - 1),
             domain |-> SubSeqFrom(s, LastAt(s) + 1)])

\* const [, domain] = /.*@(.*)/.exec(email)
LookupDomain(email) == RegexSplit(email)[1].domain

BlacklistedExactCase(blacklist, domain) ==
  \E i \in 1..Len(blacklist) : blacklist[i] = domain

\* item.toLowerCase() == domain.toLowerCase() for some item of the blacklist
Blacklisted(blacklist, domain) ==
  \E i \in 1..Len(blacklist) : ToLowerCase(blacklist[i]) = ToLowerCase(domain)

\* buildWKDUrl: <<>> when it throws, else the URL
\* https://{domain}/.well-known/openpgpkey/hu/{zbase32(sha1(lower(localPart)))}
BuildWKDUrl(email) ==
  LET m == RegexSplit(email)[1]
  IN IF m.localPart = <<>> \/ m.domain = <<>>
     THEN None
     ELSE Some([host |-> m.domain,
                hu |-> [zbase32sha1 |-> ToLowerCase(m.localPart)]])

WkdError(msg) == [ok |-> FALSE, error |-> msg, keys |-> <<>>]

\* key material a directory answers with, as openpgp.key.read gives it
SampleData ==
  LET a == UserOf(<<"a", "@", "x">>)
      b == UserOf(<<"b", "@", "x">>)
      k1 == [id |-> 1, users |-> <<a, b>>, status |-> "revoked", created |-> 2]
      k2 == [id |-> 2, users |-> <<a>>, status |-> "valid", created |-> 1]
      k3 == [id |-> 1, users |-> <<b>>, status |-> "valid", created |-> 1]
  IN {[err |-> TRUE, keys |-> <<>>],
      [err |-> FALSE, keys |-> <<k1, k2>>],
      [err |-> FALSE, keys |-> <<k3>>]}

\* value.byteLength of the chunks a body is delivered in
ChunkSizes == {1, 32768, 65536}

RECURSIVE TotalBytes(_)
TotalBytes(chunks) ==
  IF chunks = <<>> THEN 0 ELSE Head(chunks).byteLength + TotalBytes(Tail(chunks))

WkdIdle ==
  /\ wPc = "idle"
  /\ wEmail = <<>>
  /\ wOnlyOne = FALSE
  /\ wBlacklist = <<>>
  /\ wTested = None
  /\ wUrl = None
  /\ wFetch = "none"
  /\ wTimer = "unarmed"
  /\ wTimerMs = 0
  /\ wStatus = 0
  /\ wTotal = 0
  /\ wResults = <<>>
  /\ wDelivered = <<>>
  /\ wData = None
  /\ wOutcome = None
  /\ wOpenAtFire = FALSE

InitWKD ==
  /\ wPc = "start"
  /\ wEmail \in Addresses
  /\ wOnlyOne \in BOOLEAN
  /\ wBlacklist \in Blacklists
  /\ wTested = None
  /\ wUrl = None
  /\ wFetch = "none"
  /\ wTimer = "unarmed"
  /\ wTimerMs = 0
  /\ wStatus = 0
  /\ wTotal = 0
  /\ wResults = <<>>
  /\ wDelivered = <<>>
  /\ wData = None
  /\ wOutcome = None
  /\ wOpenAtFire = FALSE

WkdThrow(msg) ==
  /\ wOutcome' = Some(WkdError(msg))
  /\ wPc' = "done"

\* lookup(email, onlyOne) up to its first await
WkdLookup ==
  /\ wPc = "start"
  /\ IF wEmail = <<>>
     THEN /\ WkdThrow("WKD: Skipping lookup without email.")
          /\ UNCHANGED <<wTested, wUrl, wFetch, wTimer, wTimerMs>>
     ELSE IF RegexSplit(wEmail) = None
     THEN /\ WkdThrow("TypeError")
          /\ UNCHANGED <<wTested, wUrl, wFetch, wTimer, wTimerMs>>
     ELSE /\ wTested' = Some(LookupDomain(wEmail))
          /\ IF Blacklisted(wBlacklist, LookupDomain(wEmail))
             THEN /\ WkdThrow("WKD: Skipping blacklisted domain.")
                  /\ UNCHANGED <<wUrl, wFetch, wTimer, wTimerMs>>
             ELSE IF BuildWKDUrl(wEmail) = None
             THEN /\ WkdThrow("WKD: failed to parse")
                  /\ UNCHANGED <<wUrl, wFetch, wTimer, wTimerMs>>
             ELSE /\ wUrl' = BuildWKDUrl(wEmail)
                  /\ wFetch' = "pending"
                  /\ wTimer' = "armed"
                  /\ wTimerMs' = TIMEOUT * 1000
                  /\ wPc' = "fetching"
                  /\ UNCHANGED wOutcome
  /\ UNCHANGED <<notWkd, wEmail, wOnlyOne, wBlacklist, wStatus, wTotal, wResults,
                 wDelivered, wData, wOpenAtFire>>

\* the callback of setTimeout in timeout(): reject, which has an effect only
\* while the promise of timeout() is unsettled, that is before fetch settled
WkdTimerFires ==
  /\ wTimer = "armed"
  /\ wTimer' = "fired"
  /\ wOpenAtFire' = (wOutcome = None)
  /\ IF wPc = "fetching"
     THEN WkdThrow("WKD: Timeout")
     ELSE UNCHANGED <<wPc, wOutcome>>
  /\ UNCHANGED <<notWkd, wEmail, wOnlyOne, wBlacklist, wTested, wUrl, wFetch, wTimerMs,
                 wStatus, wTotal, wResults, wDelivered, wData>>

\* sizeLimitResponse up to the first reader.read()
SizeLimitResponseStart(status) ==
  IF status # 200
  THEN WkdThrow("WKD: Invalid WKD Response")
  ELSE /\ wPc' = "reading"
       /\ UNCHANGED wOutcome

\* window.fetch(url) resolves with a response: promise.then(resolve, reject)
\* of timeout(), then res => sizeLimitResponse(res, limit)
WkdFetchResolves ==
  /\ wFetch = "pending"
  /\ wFetch' = "resolved"
  /\ \E status \in {200, 404} :
       IF wPc = "fetching"
       THEN /\ wStatus' = status
            /\ SizeLimitResponseStart(status)
       ELSE UNCHANGED <<wPc, wOutcome, wStatus>>
  /\ UNCHANGED <<notWkd, wEmail, wOnlyOne, wBlacklist, wTested, wUrl, wTimer, wTimerMs,
                 wTotal, wResults, wDelivered, wData, wOpenAtFire>>

\* window.fetch(url) rejects (network failure)
WkdFetchRejects ==
  /\ wFetch = "pending"
  /\ wFetch' = "rejected"
  /\ IF wPc = "fetching"
     THEN WkdThrow("TypeError: Failed to fetch")
     ELSE UNCHANGED <<wPc, wOutcome>>
  /\ UNCHANGED <<notWkd, wEmail, wOnlyOne, wBlacklist, wTested, wUrl, wTimer, wTimerMs,
                 wStatus, wTotal, wResults, wDelivered, wData, wOpenAtFire>>

\* the test of pump() after a chunk was added
OverLimitInclusive(total, limit) == total >= limit

OverLimit(total, limit) == total > limit

\* pump(): reader.read() resolves with {done: false, value}
WkdChunk ==
  /\ wPc = "reading"
  /\ Len(wDelivered) < MaxChunks
  /\ \E size \in ChunkSizes :
       LET chunk == [seq |-> Len(wDelivered) + 1, byteLength |-> size]
       IN /\ wDelivered' = Append(wDelivered, chunk)
          /\ wTotal' = wTotal + chunk.byteLength
          /\ wResults' = Append(wResults, chunk)
          /\ IF OverLimit(wTotal + chunk.byteLength, SIZE_LIMIT * 1024)
             THEN WkdThrow("WKD: Response longer then the max size")
             ELSE UNCHANGED <<wPc, wOutcome>>
  /\ UNCHANGED <<notWkd, wEmail, wOnlyOne, wBlacklist, wTested, wUrl, wFetch, wTimer,
                 wTimerMs, wStatus, wData, wOpenAtFire>>

\* pump(): reader.read() resolves with {done: true}: the concatenated results
\* are the data of lookup, which parseKeysForEMail filters
WkdBodyDone ==
  /\ wPc = "reading"
  /\ wData' = Some(wResults)
  /\ \E data \in SampleData :
       wOutcome' = Some(ParseKeysForEMail(data, wEmail, wOnlyOne))
  /\ wPc' = "done"
  /\ UNCHANGED <<notWkd, wEmail, wOnlyOne, wBlacklist, wTested, wUrl, wFetch, wTimer,
                 wTimerMs, wStatus, wTotal, wResults, wDelivered, wOpenAtFire>>

\* pump(): reader.read() rejects (the connection breaks during the body)
WkdReadFails ==
  /\ wPc = "reading"
  /\ WkdThrow("TypeError: network error")
  /\ UNCHANGED <<notWkd, wEmail, wOnlyOne, wBlacklist, wTested, wUrl, wFetch, wTimer,
                 wTimerMs, wStatus, wTotal, wResults, wDelivered, wData, wOpenAtFire>>

NextWKD ==
  \/ WkdLookup
  \/ WkdTimerFires
  \/ WkdFetchResolves
  \/ WkdFetchRejects
  \/ WkdChunk
  \/ WkdBodyDone
  \/ WkdReadFails

-----------------------------------------------------------------------------
(* AutoLocate *)

MAIN_KEYRING_ID == "localhost|#|mailvelope"

\* options.email of a query (a query by key id or fingerprint has none)
LocateEmails == {None, Some(<<"a", "@", "x">>), Some(<<"a", "@", "X">>), Some(<<"x">>)}

\* what keyserver.lookup(options) resolves with: nothing, a key object without
\* armored text, a key object with it
KeyserverKey ==
  [id |-> 9, users |-> <<UserOf(<<"a", "@", "x">>)>>, status |-> "valid", created |-> 1]

KeyserverAnswers == {"throws", "undefined", "no-armored", "armored"}

\* getKeyserverEnabled / getWKDEnabled
GetKeyserverEnabled(prefs) == prefs.mvelo_tofu_lookup = TRUE

GetWKDEnabledAlways(prefs) == TRUE

GetWKDEnabled(prefs) == prefs.wkd_lookup = TRUE

LocateIdle ==
  /\ lPc = "idle"
  /\ lEmail = None
  /\ lPrefs = [mvelo_tofu_lookup |-> FALSE, wkd_lookup |-> FALSE]
  /\ lArmored = None
  /\ lCalls = <<>>
  /\ lKsYield = None
  /\ lWkdYield = None
  /\ lImports = <<>>
  /\ lReturned = "pending"

InitLocate ==
  /\ lPc = "start"
  /\ lEmail \in LocateEmails
  /\ lPrefs \in [mvelo_tofu_lookup : BOOLEAN, wkd_lookup : BOOLEAN]
  /\ lArmored = None
  /\ lCalls = <<>>
  /\ lKsYield = None
  /\ lWkdYield = None
  /\ lImports = <<>>
  /\ lReturned = "pending"

\* if (armored) {... await localKeyring.importKeys([{type: 'public', armored}])}
\* return
LocateImportOrReturn(armored, calls) ==
  IF armored # None
  THEN /\ lImports' = Append(lImports, [keyringId |-> MAIN_KEYRING_ID,
                                       type |-> "public", armored |-> armored[1]])
       /\ lCalls' = Append(calls, "import")
       /\ lPc' = "import"
       /\ UNCHANGED lReturned
  ELSE /\ lPc' = "done"
       /\ lReturned' = "returned"
       /\ lCalls' = calls
       /\ UNCHANGED lImports

\* the second if of locate, entered with the armored of the keyserver step
LocateAfterKeyserver(armored) ==
  IF armored = None /\ lEmail # None /\ GetWKDEnabled(lPrefs)
  THEN \* armored = await this.wkd.lookup(options.email, true)
       /\ lCalls' = Append(lCalls, "wkd")
       /\ lPc' = "wkd"
       /\ wPc' = "start"
       /\ wEmail' = lEmail[1]
       /\ wOnlyOne' = TRUE
       /\ UNCHANGED <<lImports, lReturned, wBlacklist, wTested, wUrl, wFetch, wTimer,
                      wTimerMs, wStatus, wTotal, wResults, wDelivered, wData,
                      wOutcome, wOpenAtFire>>
  ELSE /\ LocateImportOrReturn(armored, lCalls)
       /\ UNCHANGED wkdVars

\* locate(options) up to its first await
LocateStart ==
  /\ lPc = "start"
  /\ IF GetKeyserverEnabled(lPrefs)
     THEN /\ lCalls' = Append(lCalls, "keyserver")
          /\ lPc' = "keyserver"
          /\ UNCHANGED <<lImports, lReturned, wkdVars>>
     ELSE LocateAfterKeyserver(None)
  /\ UNCHANGED <<lEmail, lPrefs, lArmored, lKsYield, lWkdYield, notLoc>>

\* await this.keyserver.lookup(options) settles
LocateKeyserverSettles ==
  /\ lPc = "keyserver"
  /\ \E answer \in KeyserverAnswers :
       LET armored == IF answer = "armored" THEN Some(<<KeyserverKey>>) ELSE None
       IN /\ lArmored' = armored
          /\ lKsYield' = armored
          /\ LocateAfterKeyserver(armored)
  /\ UNCHANGED <<lEmail, lPrefs, lWkdYield, notLoc>>

\* await this.wkd.lookup(options.email, true) settles
LocateWkdSettles ==
  /\ lPc = "wkd"
  /\ wPc = "done"
  /\ LET armored == IF wOutcome[1].ok THEN Some(wOutcome[1].keys) ELSE None
     IN /\ lArmored' = armored
        /\ lWkdYield' = armored
        /\ LocateImportOrReturn(armored, lCalls)
  /\ UNCHANGED <<lEmail, lPrefs, lKsYield, wkdVars, notLoc>>

\* await localKeyring.importKeys(...) settles; it is awaited outside any try
LocateImportSettles ==
  /\ lPc = "import"
  /\ \E rejected \in BOOLEAN :
       lReturned' = IF rejected THEN "threw" ELSE "returned"
  /\ lPc' = "done"
  /\ UNCHANGED <<lEmail, lPrefs, lArmored, lCalls, lKsYield, lWkdYield, lImports,
                 wkdVars, notLoc>>

NextLocate ==
  \/ LocateStart
  \/ LocateKeyserverSettles
  \/ LocateWkdSettles
  \/ LocateImportSettles
  \/ WkdLookup
  \/ WkdTimerFires
  \/ WkdFetchResolves
  \/ WkdFetchRejects
  \/ WkdChunk
  \/ WkdBodyDone
  \/ WkdReadFails

-----------------------------------------------------------------------------
(* EditorController *)

API_KEYRING_ID == "webmail|#|api"

KeyringIds == {MAIN_KEYRING_ID, API_KEYRING_ID}

RecipientAddresses == {"a@x.org", "b@y.org"}

\* Fingerprints are numbers; their order stands for the order of the strings.
\* The keys of the keyrings: 1 and 3 are keys for a@x.org, 2 is a key for
\* b@y.org that is no valid encryption key.
StoreKey(fpr) ==
  [fingerprint |-> fpr,
   email |-> IF fpr = 2 THEN "b@y.org" ELSE "a@x.org",
   validEncryption |-> fpr # 2]

\* the contents of the keyrings a session may find
KeyringSetups ==
  LET ring(fprs, primary) == [keys |-> {StoreKey(f) : f \in fprs}, primary |-> primary]
  IN {[k \in KeyringIds |-> IF k = MAIN_KEYRING_ID THEN ring({1, 3}, Some(3))
                                                  ELSE ring({1, 2}, None)],
      [k \in KeyringIds |-> IF k = MAIN_KEYRING_ID THEN ring({2}, None)
                                                  ELSE ring({1, 2, 3}, Some(3))]}

RECURSIVE SortedSeq(_)
SortedSeq(S) ==
  IF S = {} THEN <<>>
  ELSE LET m == CHOOSE x \in S : \A y \in S : x <= y
       IN <<m>> \o SortedSeq(S \ {m})

Range(seq) == {seq[i] : i \in 1..Len(seq)}

\* mvelo.util.sortAndDeDup
SortAndDeDup(seq) == SortedSeq(Range(seq))

\* keyring.getPrimaryKeyFpr(): <<>> when the keyring has no default key
GetPrimaryKeyFpr(keyringId) == eStore[keyringId].primary

\* KeyringBase.getKeyByAddress with valid = true, then mapAddressKeyMapToFpr:
\* for one address the fingerprints of its valid keys, <<>> standing for false
KeyFprsForAddress(keyringId, email) ==
  SortedSeq({k.fingerprint : k \in {x \in eStore[keyringId].keys :
                                      x.email = email /\ x.validEncryption}})

\* Object.keys(keyFprMap).some(keyFpr => keyFprMap[keyFpr] === false)
SomeAddressWithoutKeyFirstOnly(keyringId, recipients) ==
  /\ recipients # <<>>
  /\ KeyFprsForAddress(keyringId, recipients[1]) = <<>>

SomeAddressWithoutKey(keyringId, recipients) ==
  \E i \in 1..Len(recipients) : KeyFprsForAddress(keyringId, recipients[i]) = <<>>

RECURSIVE ConcatFprs(_, _)
\* msg.recipients.forEach(recipient => keyFprs = keyFprs.concat(keyFprMap[recipient]))
ConcatFprs(keyringId, recipients) ==
  IF recipients = <<>> THEN <<>>
  ELSE KeyFprsForAddress(keyringId, Head(recipients))
         \o ConcatFprs(keyringId, Tail(recipients))

\* the recipient lists a client sends with 'editor-container-encrypt'
RecipientLists ==
  {<<"a@x.org">>, <<"a@x.org", "a@x.org">>, <<"b@y.org">>, <<"a@x.org", "b@y.org">>}

EdEvent(ev, code) == [ev |-> ev, code |-> code]

\* the controller after its constructor and, without a container, after
\* onEditorInit: onEditorOptions({keyringId: getPreferredKeyringId(), ...})
EditorStart(jobLimit) ==
  /\ eKind \in {"popup", "container", "text"}
  /\ eStore \in KeyringSetups
  /\ eAutoAdd \in BOOLEAN
  /\ eKeyringId \in IF eKind = "container" THEN {API_KEYRING_ID} ELSE KeyringIds
  /\ eJobLimit = jobLimit
  /\ ePgpMIME = FALSE
  /\ eReason = None
  /\ eKeyFprBuffer = None
  /\ eEditorPopup = FALSE
  /\ ePopupOpening = FALSE
  /\ ePromises = <<>>
  /\ eEncryptDone = 0
  /\ eEncryptTimer = 0
  /\ eTimers = {}
  /\ eJobs = <<>>
  /\ eEditorOut = <<>>
  /\ eContOut = <<>>
  /\ eAwaited = <<>>
  /\ eSeq = 0
  /\ eLast = [event |-> "none"]

InitEditor == EditorStart(MaxJobs)

InitEditorRetry == EditorStart(MaxAttempts)

EditorIdle ==
  /\ eKind = "popup"
  /\ eStore = CHOOSE s \in KeyringSetups : TRUE
  /\ eAutoAdd = FALSE
  /\ eKeyringId = MAIN_KEYRING_ID
  /\ eJobLimit = 0
  /\ ePgpMIME = FALSE
  /\ eReason = None
  /\ eKeyFprBuffer = None
  /\ eEditorPopup = FALSE
  /\ ePopupOpening = FALSE
  /\ ePromises = <<>>
  /\ eEncryptDone = 0
  /\ eEncryptTimer = 0
  /\ eTimers = {}
  /\ eJobs = <<>>
  /\ eEditorOut = <<>>
  /\ eContOut = <<>>
  /\ eAwaited = <<>>
  /\ eSeq = 0
  /\ eLast = [event |-> "none"]

\* the number of container requests and encryptText calls so far
Requests == Len(eEditorOut) + Len(eContOut)

\* onEditorContainerEncrypt(msg)
OnEditorContainerEncrypt ==
  /\ eKind = "container"
  /\ Requests < MaxRequests
  /\ \E keyringId \in KeyringIds, recipients \in RecipientLists :
       /\ eLast' = [event |-> "editor-container-encrypt", keyringId |-> keyringId,
                    recipients |-> recipients]
       /\ ePgpMIME' = TRUE
       /\ eKeyringId' = keyringId
       /\ IF SomeAddressWithoutKey(keyringId, recipients)
          THEN /\ eContOut' = Append(eContOut,
                                     EdEvent("error-message", "NO_KEY_FOR_RECIPIENT"))
               /\ UNCHANGED <<eKeyFprBuffer, eEditorOut, eAwaited>>
          ELSE LET keyFprs == ConcatFprs(keyringId, recipients)
                   primaryKeyFpr == GetPrimaryKeyFpr(keyringId)
                   withPrimary == IF eAutoAdd /\ primaryKeyFpr # None
                                  THEN Append(keyFprs, primaryKeyFpr[1])
                                  ELSE keyFprs
               IN /\ eKeyFprBuffer' = Some(SortAndDeDup(withPrimary))
                  /\ eEditorOut' = Append(eEditorOut, EdEvent("get-plaintext", "encrypt"))
                  /\ eAwaited' = Append(eAwaited, [draft |-> FALSE,
                                                    keyFprs |-> Some(SortAndDeDup(withPrimary))])
                  /\ UNCHANGED eContOut
  /\ eSeq' = eSeq + 1
  /\ UNCHANGED <<eKind, eStore, eAutoAdd, eJobLimit, eReason, eEditorPopup, ePopupOpening,
                 ePromises, eEncryptDone, eEncryptTimer, eTimers, eJobs, notEd>>

\* onEditorContainerCreateDraft(msg)
OnEditorContainerCreateDraft ==
  /\ eKind = "container"
  /\ Requests < MaxRequests
  /\ \E keyringId \in KeyringIds :
       /\ eLast' = [event |-> "editor-container-create-draft", keyringId |-> keyringId]
       /\ ePgpMIME' = TRUE
       /\ eKeyringId' = keyringId
       /\ eReason' = Some("PWD_DIALOG_REASON_CREATE_DRAFT")
       /\ IF GetPrimaryKeyFpr(keyringId) # None
          THEN /\ eKeyFprBuffer' = Some(GetPrimaryKeyFpr(keyringId))
               /\ eEditorOut' = Append(eEditorOut, EdEvent("get-plaintext", "draft"))
               /\ eAwaited' = Append(eAwaited, [draft |-> TRUE,
                                                 keyFprs |-> Some(GetPrimaryKeyFpr(keyringId))])
               /\ UNCHANGED eContOut
          ELSE /\ eContOut' = Append(eContOut,
                                     EdEvent("error-message", "NO_KEY_FOR_ENCRYPTION"))
               /\ UNCHANGED <<eKeyFprBuffer, eEditorOut, eAwaited>>
  /\ eSeq' = eSeq + 1
  /\ UNCHANGED <<eKind, eStore, eAutoAdd, eJobLimit, eEditorPopup, ePopupOpening, ePromises,
                 eEncryptDone, eEncryptTimer, eTimers, eJobs, notEd>>

\* an encrypt(options) that asks for the popup and sets no result handle
EncryptWithoutHandle ==
  /\ eKind = "popup"
  /\ eEncryptDone = 0
  /\ ~ePopupOpening /\ ~eEditorPopup
  /\ eLast' = [event |-> "encrypt"]
  /\ eReason' = None
  /\ ePopupOpening' = TRUE
  /\ eSeq' = eSeq + 1
  /\ UNCHANGED <<eKind, eStore, eAutoAdd, eJobLimit, eKeyringId, ePgpMIME, eKeyFprBuffer,
                 ePromises, eEncryptDone, eEditorPopup, eEncryptTimer, eTimers, eJobs,
                 eEditorOut, eContOut, eAwaited, notEd>>

\* encrypt(options): a new result handle, and the popup is asked for
Encrypt ==
  /\ eKind = "popup"
  /\ eEncryptDone = 0
  /\ eLast' = [event |-> "encrypt"]
  /\ eReason' = None
  /\ ePromises' = Append(ePromises, [state |-> "pending", by |-> 0, code |-> ""])
  /\ eEncryptDone' = Len(ePromises) + 1
  /\ ePopupOpening' = TRUE
  /\ eSeq' = eSeq + 1
  /\ UNCHANGED <<eKind, eStore, eAutoAdd, eJobLimit, eKeyringId, ePgpMIME, eKeyFprBuffer,
                 eEditorPopup, eEncryptTimer, eTimers, eJobs, eEditorOut, eContOut,
                 eAwaited, notEd>>

\* openPopup(...).then(popup => {this.editorPopup = popup; ...})
PopupOpened ==
  /\ ePopupOpening
  /\ ePopupOpening' = FALSE
  /\ eEditorPopup' = TRUE
  /\ UNCHANGED eLast
  /\ UNCHANGED <<eKind, eStore, eAutoAdd, eJobLimit, eKeyringId, ePgpMIME, eReason, eKeyFprBuffer,
                 ePromises, eEncryptDone, eEncryptTimer, eTimers, eJobs, eEditorOut,
                 eContOut, eAwaited, eSeq, notEd>>

\* encryptText(): a new result handle, and the plaintext is asked for
EncryptText ==
  /\ eKind = "text"
  /\ Requests < MaxRequests
  /\ eLast' = [event |-> "encryptText"]
  /\ ePromises' = Append(ePromises, [state |-> "pending", by |-> 0, code |-> ""])
  /\ eEncryptDone' = Len(ePromises) + 1
  /\ eEditorOut' = Append(eEditorOut, EdEvent("get-plaintext", "encrypt"))
  /\ eAwaited' = Append(eAwaited, [draft |-> FALSE, keyFprs |-> None])
  /\ eSeq' = eSeq + 1
  /\ UNCHANGED <<eKind, eStore, eAutoAdd, eJobLimit, eKeyringId, ePgpMIME, eReason, eKeyFprBuffer,
                 eEditorPopup, ePopupOpening, eEncryptTimer, eTimers, eJobs, eContOut,
                 notEd>>

\* a promise whose last resolve / reject wins
SettleLastWins(promises, idx, state, by, code) ==
  [promises EXCEPT ![idx] = [state |-> state, by |-> by, code |-> code]]

\* promise.reject / promise.resolve: no effect on a settled promise
Settle(promises, idx, state, by, code) ==
  IF promises[idx].state = "pending"
  THEN [promises EXCEPT ![idx] = [state |-> state, by |-> by, code |-> code]]
  ELSE promises

\* onEditorCancel(), also the remove listener of the popup
OnEditorCancel ==
  /\ eKind = "popup"
  /\ eEditorPopup
  /\ eLast' = [event |-> "editor-cancel"]
  /\ eEditorPopup' = FALSE
  /\ ePromises' = Settle(ePromises, eEncryptDone, "rejected", 0, "EDITOR_DIALOG_CANCEL")
  /\ eSeq' = eSeq + 1
  /\ UNCHANGED <<eKind, eStore, eAutoAdd, eJobLimit, eKeyringId, ePgpMIME, eReason, eKeyFprBuffer,
                 ePopupOpening, eEncryptDone, eEncryptTimer, eTimers, eJobs, eEditorOut,
                 eContOut, eAwaited, notEd>>

\* the keys the editor sends along with the plaintext (their fingerprints)
SelectedKeys == {<<1>>, <<3, 1, 3>>}

GetPublicKeyFprsUnsorted(keys) ==
  IF eKeyFprBuffer # None
  THEN eKeyFprBuffer[1]
  ELSE LET primaryKeyFpr == GetPrimaryKeyFpr(MAIN_KEYRING_ID)
       IN IF eAutoAdd /\ primaryKeyFpr # None
          THEN Append(keys, primaryKeyFpr[1])
          ELSE keys

\* getPublicKeyFprs(keys)
GetPublicKeyFprs(keys) ==
  IF eKeyFprBuffer # None
  THEN SortAndDeDup(eKeyFprBuffer[1])
  ELSE LET primaryKeyFpr == GetPrimaryKeyFpr(MAIN_KEYRING_ID)
       IN SortAndDeDup(IF eAutoAdd /\ primaryKeyFpr # None
                       THEN Append(keys, primaryKeyFpr[1])
                       ELSE keys)

\* a run of onEditorPlaintext: its options, the keyring of the session when it
\* starts, the request it answers (none in the popup), whether no earlier run
\* was outstanding then, and what it did
NewJob(signMsg, override, mime, keyringId) ==
  [pc |-> "start", signMsg |-> signMsg, override |-> override, mime |-> mime,
   keyringId |-> keyringId, keyFprs |-> <<>>, signKeyFpr |-> None,
   request |-> IF eKind = "popup" THEN [draft |-> FALSE, keyFprs |-> None]
               ELSE Head(eAwaited),
   alone |-> \A k \in 1..Len(eJobs) : eJobs[k].pc = "done",
   reason |-> "", outcome |-> "", unlockAsked |-> FALSE, engine |-> FALSE,
   popupAtEnd |-> FALSE, promise |-> 0, editorOut |-> {}, contOut |-> {}]

SigningKeyFprDefaultFirst(override, keyringId) ==
  IF GetPrimaryKeyFpr(keyringId) # None THEN GetPrimaryKeyFpr(keyringId) ELSE override

\* signAndEncryptMessage: if (!signKeyFpr) signKeyFpr = primaryKeyFpr
SigningKeyFpr(override, keyringId) ==
  IF override # None THEN override ELSE GetPrimaryKeyFpr(keyringId)

MimeBuiltUnlessThrown(mime) == mime # "throws"

\* signAndEncrypt: buildMail returned data, neither thrown nor null
MimeBuilt(mime) == mime = "ok"

CancelIsAbortEverywhere(popup, code) == code = "PWD_DIALOG_CANCEL"

\* if (this.editorPopup && err.code === 'PWD_DIALOG_CANCEL'), the popup case
CancelIsAbort(popup, code) == popup /\ code = "PWD_DIALOG_CANCEL"

JobDeliversAlways(outcome) == TRUE

\* the statements after the await of onEditorPlaintext run when signAndEncrypt
\* resolved; its rejection goes to the catch
JobDelivers(outcome) == outcome = "ok"

\* clearTimeout(this.encryptTimer)
ClearTimeout(timers, timer) == timers \ {timer}

\* the catch of onEditorPlaintext for job j, entered with this.encryptTimer =
\* timer and the job list jobs
JobFails(j, code, jobs, timer) ==
  /\ eEncryptTimer' = timer
  /\ IF CancelIsAbort(eEditorPopup, code)
     THEN /\ eJobs' = [jobs EXCEPT ![j].pc = "done", ![j].outcome = code,
                                  ![j].popupAtEnd = eEditorPopup,
                                  ![j].promise = eEncryptDone,
                                  ![j].editorOut = @ \cup {"hide-pwd-dialog"}]
          /\ UNCHANGED <<ePromises, eTimers>>
     ELSE /\ eJobs' = [jobs EXCEPT
                         ![j].pc = "done", ![j].outcome = code,
                         ![j].popupAtEnd = eEditorPopup,
                         ![j].promise = eEncryptDone,
                         ![j].editorOut = @ \cup {"error-message", "encrypt-failed"},
                         ![j].contOut = IF eKind = "container"
                                        THEN @ \cup {"error-message"} ELSE @]
          /\ ePromises' = IF eKind = "container" THEN ePromises
                          ELSE Settle(ePromises, eEncryptDone, "rejected", j, code)
          /\ eTimers' = ClearTimeout(eTimers, timer)
  /\ UNCHANGED eEditorPopup

\* the try of onEditorPlaintext after the await, for job j: 'encrypt-end', the
\* popup is closed, transferEncrypted, clearTimeout
JobSucceeds(j, outcome) ==
  /\ eJobs' = [eJobs EXCEPT
                 ![j].pc = "done", ![j].outcome = outcome,
                 ![j].popupAtEnd = eEditorPopup,
                 ![j].promise = eEncryptDone,
                 ![j].editorOut = @ \cup {"encrypt-end"},
                 ![j].contOut = IF eKind = "container"
                                THEN @ \cup {"encrypted-message"} ELSE @]
  /\ eEditorPopup' = FALSE
  /\ ePromises' = IF eKind = "container" THEN ePromises
                  ELSE Settle(ePromises, eEncryptDone, "resolved", j, "")
  /\ eTimers' = ClearTimeout(eTimers, eEncryptTimer)
  /\ UNCHANGED eEncryptTimer

\* onEditorPlaintext(options) with options.action = 'encrypt', up to the first
\* await that suspends: signAndEncrypt, buildMail, getPublicKeyFprs,
\* signAndEncryptMessage or encryptMessage
OnEditorPlaintext ==
  /\ Len(eJobs) < eJobLimit
  /\ IF eKind = "popup" THEN eEditorPopup ELSE eAwaited # <<>>
  /\ eAwaited' = IF eKind = "popup" THEN eAwaited ELSE Tail(eAwaited)
  /\ eLast' = [event |-> "editor-plaintext"]
  /\ \E signMsg \in BOOLEAN, signKeyFpr \in {None, Some(1)}, keys \in SelectedKeys,
        mime \in {"ok", "throws", "null"} :
       /\ signKeyFpr # None => signMsg
       /\ LET j == Len(eJobs) + 1
              new == NewJob(signMsg, signKeyFpr, mime, eKeyringId)
              jobs == Append(eJobs,
                             IF mime = "throws" /\ eKind = "container"
                             THEN [new EXCEPT !.contOut = {"error-message-mime"}]
                             ELSE new)
              keyFprs == GetPublicKeyFprs(keys)
              signKey == SigningKeyFpr(signKeyFpr, eKeyringId)
          IN IF ~MimeBuilt(mime)
             THEN JobFails(j, "MIME_BUILD_FAILED", jobs, eEncryptTimer)
             ELSE IF signMsg
             THEN IF signKey = None
                  THEN JobFails(j, "NO_PRIMARY_KEY_FOUND",
                                [jobs EXCEPT ![j].keyFprs = keyFprs], 0)
                  ELSE /\ eJobs' = [jobs EXCEPT
                                      ![j].pc = "unlock",
                                      ![j].unlockAsked = TRUE,
                                      ![j].keyFprs = keyFprs,
                                      ![j].signKeyFpr = signKey,
                                      ![j].reason = IF eReason # None THEN eReason[1]
                                                    ELSE "PWD_DIALOG_REASON_SIGN"]
                       /\ eEncryptTimer' = 0
                       /\ UNCHANGED <<ePromises, eTimers, eEditorPopup>>
             ELSE /\ eJobs' = [jobs EXCEPT ![j].pc = "engine", ![j].keyFprs = keyFprs,
                                          ![j].engine = TRUE]
                  /\ eEncryptTimer' = j
                  /\ eTimers' = eTimers \cup {j}
                  /\ UNCHANGED <<ePromises, eEditorPopup>>
  /\ eSeq' = eSeq + 1
  /\ UNCHANGED <<eKind, eStore, eAutoAdd, eJobLimit, eKeyringId, ePgpMIME, eReason, eKeyFprBuffer,
                 ePopupOpening, eEncryptDone, eEditorOut, eContOut, notEd>>

\* model.encryptMessage (modules/pgpModel) encrypts once its unlockKey callback
\* has resolved; a rejection of the callback is the rejection of the call
UnlockProceeds(result) == result = "ok"

\* the unlock of the signing key of job j settles (the unlockKey callback of
\* signAndEncryptMessage): unlocked, cancelled by the user, or failed
UnlockSettles ==
  /\ \E j \in 1..Len(eJobs), result \in {"ok", "PWD_DIALOG_CANCEL", "UNLOCK_FAILED"} :
       /\ eJobs[j].pc = "unlock"
       /\ IF UnlockProceeds(result)
          THEN /\ eJobs' = [eJobs EXCEPT ![j].pc = "engine", ![j].engine = TRUE]
               /\ eEncryptTimer' = j
               /\ eTimers' = eTimers \cup {j}
               /\ UNCHANGED <<ePromises, eEditorPopup>>
          ELSE IF JobDelivers(result)
               THEN JobSucceeds(j, result)
               ELSE JobFails(j, result, eJobs, eEncryptTimer)
  /\ UNCHANGED eLast
  /\ UNCHANGED <<eKind, eStore, eAutoAdd, eJobLimit, eKeyringId, ePgpMIME, eReason, eKeyFprBuffer,
                 ePopupOpening, eEncryptDone, eEditorOut, eContOut, eAwaited, eSeq, notEd>>

\* the crypto engine settles the encryption of job j
EngineSettles ==
  /\ \E j \in 1..Len(eJobs), outcome \in {"ok", "ENCRYPT_ERROR"} :
       /\ eJobs[j].pc = "engine"
       /\ IF JobDelivers(outcome)
          THEN JobSucceeds(j, outcome)
          ELSE JobFails(j, outcome, eJobs, eEncryptTimer)
  /\ UNCHANGED eLast
  /\ UNCHANGED <<eKind, eStore, eAutoAdd, eJobLimit, eKeyringId, ePgpMIME, eReason, eKeyFprBuffer,
                 ePopupOpening, eEncryptDone, eEditorOut, eContOut, eAwaited, eSeq, notEd>>

\* the callback of an 800 ms timer
EncryptTimerFires ==
  /\ \E j \in eTimers :
       /\ eTimers' = eTimers \ {j}
       /\ eJobs' = [eJobs EXCEPT ![j].editorOut = @ \cup {"encrypt-in-progress"}]
  /\ UNCHANGED eLast
  /\ UNCHANGED <<eKind, eStore, eAutoAdd, eJobLimit, eKeyringId, ePgpMIME, eReason, eKeyFprBuffer,
                 eEditorPopup, ePopupOpening, ePromises, eEncryptDone, eEncryptTimer,
                 eEditorOut, eContOut, eAwaited, eSeq, notEd>>

NextEditor ==
  \/ OnEditorContainerEncrypt
  \/ OnEditorContainerCreateDraft
  \/ Encrypt
  \/ PopupOpened
  \/ EncryptText
  \/ OnEditorCancel
  \/ OnEditorPlaintext
  \/ UnlockSettles
  \/ EngineSettles
  \/ EncryptTimerFires

-----------------------------------------------------------------------------
(* EditorController: onEditorOptions, scheduleDecrypt, decryptArmored *)

\* the options of the constructor: this.options = {}
NoOptions ==
  [armoredDraft |-> FALSE, quotedMail |-> FALSE, predefinedText |-> FALSE,
   keepAttachments |-> FALSE, selfSigned |-> FALSE]

\* the options a caller hands over; the texts themselves are left out
DecryptOptions ==
  {[NoOptions EXCEPT !.armoredDraft = d, !.quotedMail = q, !.predefinedText = t,
                      !.keepAttachments = k] :
     d \in BOOLEAN, q \in BOOLEAN, t \in BOOLEAN, k \in BOOLEAN}

\* signature.valid as the engine reports it
Validities == {"true", "false", "null"}

SeqsUpTo(S, n) == UNION {[1..k -> S] : k \in 0..n}

\* the signatures member of a decryption result: <<>> when undefined
SignatureResults ==
  {None} \cup {Some(l) : l \in SeqsUpTo(Validities, MaxSignatures)}

\* the parts of a message, in the order parseMessage hands them to the handlers
ParseMessageParts == SeqsUpTo({"text", "attachment"}, MaxParts)

DecryptResults == [signatures : SignatureResults, parts : ParseMessageParts]

\* signatures && signatures[0].valid: reading valid of signatures[0] of an
\* empty list throws a TypeError, which the catch handles like the throw
DraftSignatureOkUnchecked(signatures) == TRUE

DraftSignatureOk(signatures) ==
  /\ signatures # None
  /\ Len(signatures[1]) >= 1
  /\ signatures[1][1] = "true"

InitDecrypt ==
  /\ dPc = "init"
  /\ dPopup \in BOOLEAN
  /\ dOptions = NoOptions
  /\ dLarge = FALSE
  /\ dInit = [scheduled |-> "none", text |-> FALSE]
  /\ dUnlock = "none"
  /\ dDecrypted = None
  /\ dParts = <<>>
  /\ dEditorOut = <<>>

DecryptIdle ==
  /\ dPc = "idle"
  /\ dPopup = FALSE
  /\ dOptions = NoOptions
  /\ dLarge = FALSE
  /\ dInit = [scheduled |-> "none", text |-> FALSE]
  /\ dUnlock = "none"
  /\ dDecrypted = None
  /\ dParts = <<>>
  /\ dEditorOut = <<>>

\* scheduleDecrypt: the events it emits before it arms the 50 ms timer
ScheduleDecrypt(large) ==
  IF large /\ ~dPopup THEN <<"decrypt-in-progress">> ELSE <<>>

\* an onEditorOptions that looks at the quoted mail before the draft
ScheduledArmoredQuotedFirst(options) ==
  IF options.quotedMail THEN "quotedMail"
  ELSE IF options.armoredDraft THEN "armoredDraft"
  ELSE "none"

\* the branches of onEditorOptions: the option whose text goes to
\* scheduleDecrypt, "none" when scheduleDecrypt is not called
ScheduledArmored(options) ==
  IF options.armoredDraft THEN "armoredDraft"
  ELSE IF options.quotedMail THEN "quotedMail"
  ELSE "none"

\* onEditorOptions, called by onEditorInit or on 'editor-options'
DecryptOnEditorOptions ==
  \E options \in DecryptOptions, large \in BOOLEAN :
    LET scheduled == ScheduledArmored(options)
    IN /\ dPc = "init"
       /\ scheduled = "none" => ~large
       /\ dOptions' = IF scheduled = "armoredDraft"
                      THEN [options EXCEPT !.keepAttachments = TRUE]
                      ELSE options
       /\ dLarge' = large
       /\ dInit' = [scheduled |-> scheduled,
                    text |-> scheduled = "none" /\ options.predefinedText]
       /\ dEditorOut' = dEditorOut
            \o (IF scheduled = "none" THEN <<>> ELSE ScheduleDecrypt(large))
            \o <<"set-init-data">>
       /\ dPc' = IF scheduled = "none" THEN "done" ELSE "timer"
       /\ UNCHANGED <<dPopup, dUnlock, dDecrypted, dParts, notDec>>

\* the timer of scheduleDecrypt fires: decryptArmored up to model.decryptMessage
DecryptArmoredStarts ==
  /\ dPc = "timer"
  /\ dOptions' = [dOptions EXCEPT !.selfSigned = dOptions.armoredDraft]
  /\ dPc' = "decrypt"
  /\ UNCHANGED <<dPopup, dInit, dLarge, dUnlock, dDecrypted, dParts, dEditorOut, notDec>>

\* the engine calls the unlockKey callback of decryptArmored; the password
\* dialog may ask for the password (beforePasswordRequest) or use its cache
DecryptUnlockKey ==
  \E result \in {"ok", "failed"}, asked \in BOOLEAN :
    /\ dPc = "decrypt"
    /\ dUnlock = "none"
    /\ dUnlock' = result
    /\ dEditorOut' = dEditorOut
         \o (IF asked /\ dPopup THEN <<"show-pwd-dialog">> ELSE <<>>)
         \o (IF result = "ok" /\ dPopup THEN <<"hide-pwd-dialog">> ELSE <<>>)
    /\ UNCHANGED <<dPc, dPopup, dInit, dOptions, dLarge, dDecrypted, dParts, notDec>>

\* model.decryptMessage rejects: the catch of decryptArmored
DecryptMessageRejects ==
  /\ dPc = "decrypt"
  /\ dEditorOut' = Append(dEditorOut, "decrypt-failed")
  /\ dPc' = "done"
  /\ UNCHANGED <<dPopup, dInit, dOptions, dLarge, dUnlock, dDecrypted, dParts, notDec>>

\* model.decryptMessage resolves: the draft check, then parseMessage is called
DecryptMessageResolves ==
  \E result \in DecryptResults :
    /\ dPc = "decrypt"
    /\ dUnlock # "failed"
    /\ dDecrypted' = Some(result)
    /\ IF dOptions.armoredDraft /\ ~DraftSignatureOk(result.signatures)
         THEN /\ dEditorOut' = Append(dEditorOut, "decrypt-failed")
              /\ dParts' = dParts
              /\ dPc' = "done"
         ELSE /\ dEditorOut' = dEditorOut
              /\ dParts' = result.parts
              /\ dPc' = "parse"
    /\ UNCHANGED <<dPopup, dInit, dOptions, dLarge, dUnlock, notDec>>

\* parseMessage hands the next part to handlers.onMessage or
\* handlers.onAttachment
DecryptParsePart ==
  /\ dPc = "parse"
  /\ dParts # <<>>
  /\ dEditorOut' = dEditorOut \o
       (IF Head(dParts) = "text" THEN <<"set-text">>
        ELSE IF dOptions.keepAttachments THEN <<"set-attachment">>
        ELSE <<>>)
  /\ dParts' = Tail(dParts)
  /\ UNCHANGED <<dPc, dPopup, dInit, dOptions, dLarge, dUnlock, dDecrypted, notDec>>

\* parseMessage settles: 'decrypt-end', or the catch when it throws
DecryptParseSettles ==
  \E ok \in BOOLEAN :
    /\ dPc = "parse"
    /\ ok => dParts = <<>>
    /\ dEditorOut' = Append(dEditorOut, IF ok THEN "decrypt-end" ELSE "decrypt-failed")
    /\ dPc' = "done"
    /\ UNCHANGED <<dPopup, dInit, dOptions, dLarge, dUnlock, dDecrypted, dParts, notDec>>

NextDecrypt ==
  \/ DecryptOnEditorOptions
  \/ DecryptArmoredStarts
  \/ DecryptUnlockKey
  \/ DecryptMessageRejects
  \/ DecryptMessageResolves
  \/ DecryptParsePart
  \/ DecryptParseSettles

-----------------------------------------------------------------------------
(* encodeZBase32 *)

ALPHABET ==
  <<"y", "b", "n", "d", "r", "f", "g", "8", "e", "j", "k", "m", "c", "p", "q", "x",
    "o", "t", "1", "u", "w", "i", "s", "z", "a", "3", "4", "5", "h", "7", "6", "9">>

SHIFT == 5

MASK == 31

\* the bytes the inputs are made of: 0x00, 0x01, 0xa5, 0xff
Bytes == {0, 1, 165, 255}

RECURSIVE Shl(_, _)
\* b << k on 32 bit integers, one bit at a time: bit 30 becomes the sign and
\* bit 31 is dropped
Shl(b, k) ==
  IF k = 0 THEN b
  ELSE LET low == b % 1073741824
           int32Min == -2147483647 - 1
           shifted == IF (b \div 1073741824) % 2 = 1 THEN low * 2 + int32Min
                      ELSE low * 2
       IN  Shl(shifted, k - 1)

\* b >> k, the shift that keeps the sign
Shr(b, k) == b \div (2 ^ k)

RECURSIVE OrBits(_, _, _)
\* the bitwise or of the n low bits of a and b
OrBits(a, b, n) ==
  IF n = 0 THEN 0
  ELSE (IF a % 2 = 1 \/ b % 2 = 1 THEN 1 ELSE 0) + 2 * OrBits(a \div 2, b \div 2, n - 1)

\* buffer | (byte & 0xff)
OrByte(buffer, byte) == (buffer - (buffer % 256)) + OrBits(buffer % 256, byte % 256, 8)

\* MASK & (buffer >> bitsLeft)
ZCharIndexUnshifted(buffer, bitsLeft) == buffer % (MASK + 1)

ZCharIndex(buffer, bitsLeft) == Shr(buffer, bitsLeft) % (MASK + 1)

\* buffer << k leaves the 32 bits
ShiftWraps(b, k) == b >= 2 ^ (31 - k) \/ b < 0 - 2 ^ (31 - k)

InitZBase32 ==
  /\ zPc = "call"
  /\ zData \in SeqsUpTo(Bytes, MaxBytes)
  /\ zBuffer = 0
  /\ zIndex = 0
  /\ zBitsLeft = 0
  /\ zResult = <<>>
  /\ zWrapped = FALSE

ZBase32Idle ==
  /\ zPc = "idle"
  /\ zData = <<>>
  /\ zBuffer = 0
  /\ zIndex = 0
  /\ zBitsLeft = 0
  /\ zResult = <<>>
  /\ zWrapped = FALSE

\* the statements before the loop
EncodeZBase32Starts ==
  /\ zPc = "call"
  /\ IF Len(zData) = 0
       THEN /\ zPc' = "done"
            /\ UNCHANGED <<zBuffer, zIndex, zBitsLeft>>
       ELSE /\ zBuffer' = zData[1]
            /\ zIndex' = 1
            /\ zBitsLeft' = 8
            /\ zPc' = "loop"
  /\ zResult' = <<>>
  /\ UNCHANGED <<zData, zWrapped, notZb>>

\* one round of the loop
EncodeZBase32Loop ==
  /\ zPc = "loop"
  /\ zBitsLeft > 0 \/ zIndex < Len(zData)
  /\ LET refill == zBitsLeft < SHIFT
         more == zIndex < Len(zData)
         pad == SHIFT - zBitsLeft
         buffer == IF ~refill THEN zBuffer
                   ELSE IF more THEN OrByte(Shl(zBuffer, 8), zData[zIndex + 1])
                   ELSE Shl(zBuffer, pad)
         bitsLeft == IF ~refill THEN zBitsLeft
                     ELSE IF more THEN zBitsLeft + 8
                     ELSE zBitsLeft + pad
     IN  /\ zBuffer' = buffer
         /\ zIndex' = IF refill /\ more THEN zIndex + 1 ELSE zIndex
         /\ zBitsLeft' = bitsLeft - SHIFT
         /\ zResult' = Append(zResult, ALPHABET[ZCharIndex(buffer, bitsLeft - SHIFT) + 1])
         /\ zWrapped' = (zWrapped \/ (refill /\ ShiftWraps(zBuffer, IF more THEN 8 ELSE pad)))
  /\ UNCHANGED <<zPc, zData, notZb>>

\* the loop ends: return result
EncodeZBase32Returns ==
  /\ zPc = "loop"
  /\ ~(zBitsLeft > 0 \/ zIndex < Len(zData))
  /\ zPc' = "done"
  /\ UNCHANGED <<zData, zBuffer, zIndex, zBitsLeft, zResult, zWrapped, notZb>>

NextZBase32 ==
  \/ EncodeZBase32Starts
  \/ EncodeZBase32Loop
  \/ EncodeZBase32Returns

-----------------------------------------------------------------------------
(* KeyringBase.getFprForKeyId *)

\* the keys a keyring is made of: a primary key packet and sub key packets,
\* each with a fingerprint and a long key id; ids 1, 2 and 3 are shared by
\* packets of different keys
PgpKeyPool ==
  {[fpr |-> 11, keyId |-> 1, subKeys |-> <<[fpr |-> 12, keyId |-> 2]>>],
   [fpr |-> 21, keyId |-> 1, subKeys |-> <<>>],
   [fpr |-> 31, keyId |-> 3, subKeys |-> <<[fpr |-> 32, keyId |-> 2]>>],
   [fpr |-> 41, keyId |-> 4, subKeys |-> <<[fpr |-> 42, keyId |-> 3],
                                           [fpr |-> 43, keyId |-> 5]>>]}

\* the key ids asked for; no packet has id 6
LookupIds == 1..6

\* keystores: up to MaxStoreKeys different keys in some order
Keystores ==
  {ks \in SeqsUpTo(PgpKeyPool, MaxStoreKeys) :
     \A i, j \in 1..Len(ks) : i # j => ks[i] # ks[j]}

\* the key packets of a key, the primary key packet first
KeyPackets(key) == <<[fpr |-> key.fpr, keyId |-> key.keyId]>> \o key.subKeys

\* keystore.getKeysForId(keyId, true): the keys with a primary or sub key
\* packet of that id, null (<<>>) when there is none
GetKeysForId(keystore, keyId) ==
  LET Matches(key) == \E i \in 1..Len(KeyPackets(key)) : KeyPackets(key)[i].keyId = keyId
      keyArray == SelectSeq(keystore, Matches)
  IN  IF keyArray = <<>> THEN None ELSE Some(keyArray)

\* keyArray.length > 1
CollisionIgnored(keyArray) == FALSE

Collision(keyArray) == Len(keyArray) > 1

\* getFprForKeyId: what it throws (code) or returns (fpr)
GetFprForKeyId(keystore, keyId) ==
  LET keyArray == GetKeysForId(keystore, keyId)
  IN  IF keyArray = None THEN [code |-> "NO_KEY_FOUND_FOR_ID", fpr |-> 0]
      ELSE IF Collision(keyArray[1]) THEN [code |-> "LONG_KEY_ID_COLLISION", fpr |-> 0]
      ELSE LET packets == KeyPackets(keyArray[1][1])
               keyPacket == packets[CHOOSE i \in 1..Len(packets) :
                                      /\ packets[i].keyId = keyId
                                      /\ \A j \in 1..(i - 1) : packets[j].keyId # keyId]
           IN  [code |-> "OK", fpr |-> keyPacket.fpr]

InitKeyring ==
  /\ kKeystore \in Keystores
  /\ kCalls = <<>>

KeyringIdle ==
  /\ kKeystore = <<>>
  /\ kCalls = <<>>

\* getFprForKeyId(keyId)
KeyringGetFprForKeyId ==
  \E keyId \in LookupIds :
    /\ Len(kCalls) < MaxLookups
    /\ LET r == GetFprForKeyId(kKeystore, keyId)
       IN  kCalls' = Append(kCalls, [keyId |-> keyId, code |-> r.code, fpr |-> r.fpr])
    /\ UNCHANGED <<kKeystore, notKr>>

-----------------------------------------------------------------------------
(* KeyringBase: validateDefaultKey, hasDefaultKey, setDefaultKey, removeKey,
   getValidSigningKeys, getKeyDetails, getKeyData *)

\* the user packets of the keys: a certified address, a name without address,
\* a repeated user id, an invalid certification, a user attribute
RegistryUsers(fpr) ==
  LET user(userid, valid) == [userId |-> Some(userid), valid |-> valid]
      a == user(<<"a", "@", "x">>, TRUE)
      n == user(<<"a">>, TRUE)
      b == user(<<"b", "@", "x">>, FALSE)
      attribute == [userId |-> None, valid |-> TRUE]
  IN  CASE fpr = 3 -> <<n, a>>
        [] fpr = 5 -> <<a, a, b, attribute, n>>
        [] fpr = 7 -> <<b, a>>
        [] fpr = 17 -> <<b, attribute>>
        [] OTHER -> <<a>>

\* the keys an import may bring: private keys 1..16 with every combination of
\* the four conditions of a default key, public keys 17 and 18
RegistryKeyPool ==
  {[fpr |-> f,
    type |-> IF f <= 16 THEN "private" ELSE "public",
    status |-> IF f <= 16 /\ (f - 1) % 2 = 1 THEN "invalid" ELSE "valid",
    encryption |-> ~(f <= 16 /\ ((f - 1) \div 2) % 2 = 1),
    signing |-> ~(f <= 16 /\ ((f - 1) \div 4) % 2 = 1),
    pseudoRevoked |-> f <= 16 /\ ((f - 1) \div 8) % 2 = 1,
    users |-> RegistryUsers(f)] : f \in 1..18}

\* validateDefaultKey: the value of the && chain; getEncryptionKeyPacket and
\* getSigningKeyPacket return null when the key has no such packet
ValidateDefaultKeyRevokedIgnored(defaultKey) ==
  IF defaultKey.status # "valid" THEN "false"
  ELSE IF ~defaultKey.encryption \/ ~defaultKey.signing THEN "null"
  ELSE "true"

ValidateDefaultKey(defaultKey) ==
  IF defaultKey.status # "valid" THEN "false"
  ELSE IF ~defaultKey.encryption \/ ~defaultKey.signing THEN "null"
  ELSE IF defaultKey.pseudoRevoked THEN "false"
  ELSE "true"

\* getValidSigningKeys: the fingerprints of the keys it lists
GetValidSigningKeys ==
  {key.fpr : key \in {k \in rKeys : k.type = "private" /\ ValidateDefaultKey(k) = "true"}}

\* getUserId (modules/key): the user id of the primary, first valid, user, or
\* a label in place of it
GetUserId(key) ==
  LET valid == {i \in 1..Len(key.users) : key.users[i].userId # None /\ key.users[i].valid}
  IN  IF valid = {} THEN <<"?">>
      ELSE key.users[CHOOSE i \in valid : \A j \in valid : i <= j].userId[1]

RECURSIVE AllUsers(_, _)
\* getKeyData, the loop over key.users with options.allUsers
AllUsers(keyUsers, users) ==
  IF keyUsers = <<>> THEN users
  ELSE LET keyUser == Head(keyUsers)
           push == /\ keyUser.userId # None
                   /\ keyUser.valid
                   /\ ~\E i \in 1..Len(users) : users[i].userId = keyUser.userId[1]
                   /\ MapKeyUserIds(keyUser.userId[1]) # <<>>
       IN  AllUsers(Tail(keyUsers),
                    IF push THEN Append(users, [userId |-> keyUser.userId[1],
                                                email |-> MapKeyUserIds(keyUser.userId[1])])
                    ELSE users)

\* getKeyData: the entries of the result, {fingerprint, users}
GetKeyData(allUsers) ==
  {[fingerprint |-> key.fpr,
    users |-> IF allUsers THEN AllUsers(key.users, <<>>)
              ELSE <<[userId |-> GetUserId(key), email |-> MapKeyUserIds(GetUserId(key))]>>] :
     key \in {k \in rKeys : k.status = "valid" /\ ~k.pseudoRevoked}}

NoCall == [op |-> "none", arg |-> 0, result |-> 0]

\* the keyring as the constructor leaves it, with an empty key store
InitRegistry ==
  /\ rKeys = {}
  /\ rDefault = None
  /\ rLast = NoCall

\* importKeys: a key is merged into the store
RegistryImportKeys ==
  \E key \in RegistryKeyPool :
    /\ Cardinality(rKeys) < MaxRingKeys
    /\ \A k \in rKeys : k.fpr # key.fpr
    /\ rKeys' = rKeys \cup {key}
    /\ rLast' = NoCall
    /\ UNCHANGED <<rDefault, notReg>>

\* removeKey(fingerprint, type), with the fingerprint of a key of the keyring
RegistryRemoveKey ==
  \E key \in rKeys, type \in {"public", "private"} :
    LET removedKey == {k \in rKeys : k.fpr = key.fpr /\ k.type = type}
    IN  /\ rKeys' = rKeys \ removedKey
        /\ rLast' = [op |-> "removeKey", arg |-> 0,
                     result |-> IF removedKey = {} THEN "key not found" ELSE "removed"]
        /\ UNCHANGED <<rDefault, notReg>>

\* setDefaultKey(fpr), with the fingerprint of a key of the keyring
RegistrySetDefaultKey ==
  \E key \in rKeys :
    /\ rDefault' = Some(key.fpr)
    /\ rLast' = NoCall
    /\ UNCHANGED <<rKeys, notReg>>

\* hasDefaultKey()
RegistryHasDefaultKey ==
  /\ rLast' = [op |-> "hasDefaultKey", arg |-> 0, result |-> rDefault # None]
  /\ UNCHANGED <<rKeys, rDefault, notReg>>

\* getValidSigningKeys()
RegistryGetValidSigningKeys ==
  /\ rLast' = [op |-> "getValidSigningKeys", arg |-> 0, result |-> GetValidSigningKeys]
  /\ UNCHANGED <<rKeys, rDefault, notReg>>

\* getKeyDetails(fingerprint): details.validDefaultKey
RegistryGetKeyDetails ==
  \E key \in rKeys :
    /\ rLast' = [op |-> "getKeyDetails", arg |-> key.fpr, result |-> ValidateDefaultKey(key)]
    /\ UNCHANGED <<rKeys, rDefault, notReg>>

\* getKeyData(options)
RegistryGetKeyData ==
  \E allUsers \in BOOLEAN :
    /\ rLast' = [op |-> "getKeyData", arg |-> allUsers, result |-> GetKeyData(allUsers)]
    /\ UNCHANGED <<rKeys, rDefault, notReg>>

NextRegistry ==
  \/ RegistryImportKeys
  \/ RegistryRemoveKey
  \/ RegistrySetDefaultKey
  \/ RegistryHasDefaultKey
  \/ RegistryGetValidSigningKeys
  \/ RegistryGetKeyDetails
  \/ RegistryGetKeyData

-----------------------------------------------------------------------------
(* EditorController: onSignOnly, onEditorPlaintext with action 'sign',
   signMessage *)

\* the fingerprints 'sign-only' names
SignKeyFprs == {1, 2}

\* keyring.getPrivateKeyByFpr(keyFpr): the key object of the store, or null
GetPrivateKeyByFpr(keyFpr) == IF sRing[keyFpr] = 0 THEN None ELSE Some(sRing[keyFpr])

InitSign ==
  /\ sPc = "ready"
  /\ sRing \in [SignKeyFprs -> {0, 1}]
  /\ sSignKey = [fpr |-> 0, key |-> None]
  /\ sUnlock = "none"
  /\ sTimer = FALSE
  /\ sSignCall = None
  /\ sOut = <<>>

SignIdle ==
  /\ sPc = "idle"
  /\ sRing = [f \in SignKeyFprs |-> 0]
  /\ sSignKey = [fpr |-> 0, key |-> None]
  /\ sUnlock = "none"
  /\ sTimer = FALSE
  /\ sSignCall = None
  /\ sOut = <<>>

\* another controller removes the key (removeKey) or an import replaces the
\* key object under the fingerprint
SignKeyringChanges ==
  \E fpr \in SignKeyFprs, remove \in BOOLEAN :
    /\ sPc # "idle"
    /\ sRing[fpr] > 0
    /\ remove \/ sRing[fpr] < MaxKeyVersions
    /\ sRing' = [sRing EXCEPT ![fpr] = IF remove THEN 0 ELSE @ + 1]
    /\ UNCHANGED <<sPc, sSignKey, sUnlock, sTimer, sSignCall, sOut, notSign>>

\* onSignOnly(msg) up to the await of pwdControl.unlockKey
OnSignOnly ==
  \E signKeyFpr \in SignKeyFprs :
    /\ sPc = "ready"
    /\ sSignKey' = [fpr |-> signKeyFpr, key |-> GetPrivateKeyByFpr(signKeyFpr)]
    /\ sPc' = "unlock"
    /\ UNCHANGED <<sRing, sUnlock, sTimer, sSignCall, sOut, notSign>>

\* onSignOnly after the await: the unlock resolved, was cancelled or failed
\* (a missing key cannot be unlocked); the password may have been asked for
OnSignOnlyUnlockSettles ==
  \E result \in {"ok", "PWD_DIALOG_CANCEL", "UNLOCK_FAILED"}, asked \in BOOLEAN :
    /\ sPc = "unlock"
    /\ sSignKey.key = None => result # "ok"
    /\ sUnlock' = result
    /\ LET shown == IF asked THEN <<"show-pwd-dialog">> ELSE <<>>
       IN  IF result = "PWD_DIALOG_CANCEL"
           THEN /\ sOut' = sOut \o shown \o <<"hide-pwd-dialog">>
                /\ sPc' = "done"
           ELSE /\ sOut' = sOut \o shown
                       \o (IF result = "ok" THEN <<>> ELSE <<"error-message">>)
                       \o <<"get-plaintext">>
                /\ sPc' = "plaintext"
    /\ UNCHANGED <<sRing, sSignKey, sTimer, sSignCall, notSign>>

\* onEditorPlaintext with action 'sign': signAndEncrypt, signMessage
SignMessage ==
  /\ sPc = "plaintext"
  /\ sTimer' = TRUE
  /\ sSignCall' = Some([key |-> sSignKey.key, current |-> GetPrivateKeyByFpr(sSignKey.fpr)])
  /\ sPc' = "sign"
  /\ UNCHANGED <<sRing, sSignKey, sUnlock, sOut, notSign>>

\* model.signMessage settles (a key that is missing or locked signs nothing):
\* the rest of onEditorPlaintext, with clearTimeout(this.encryptTimer)
SignSettles ==
  \E ok \in BOOLEAN :
    /\ sPc = "sign"
    /\ ok => (sUnlock = "ok" /\ sSignKey.key # None)
    /\ sOut' = sOut \o (IF ok THEN <<"encrypt-end">> ELSE <<"error-message", "encrypt-failed">>)
    /\ sTimer' = FALSE
    /\ sPc' = "done"
    /\ UNCHANGED <<sRing, sSignKey, sUnlock, sSignCall, notSign>>

\* the 800 ms timer of signMessage fires
SignTimerFires ==
  /\ sTimer
  /\ sTimer' = FALSE
  /\ sOut' = Append(sOut, "encrypt-in-progress")
  /\ UNCHANGED <<sPc, sRing, sSignKey, sUnlock, sSignCall, notSign>>

NextSign ==
  \/ SignKeyringChanges
  \/ OnSignOnly
  \/ OnSignOnlyUnlockSettles
  \/ SignMessage
  \/ SignSettles
  \/ SignTimerFires

-----------------------------------------------------------------------------
(* Specifications *)

InitSpecParse == InitParse /\ WkdIdle /\ LocateIdle /\ EditorIdle /\ DecryptIdle /\ ZBase32Idle /\ KeyringIdle /\ InitRegistry /\ SignIdle

SpecParse == InitSpecParse /\ [][NextParse]_vars

InitSpecWKD == InitWKD /\ ParseIdle /\ LocateIdle /\ EditorIdle /\ DecryptIdle /\ ZBase32Idle /\ KeyringIdle /\ InitRegistry /\ SignIdle

SpecWKD == InitSpecWKD /\ [][NextWKD]_vars

\* the constructor of AutoLocate makes the WKDLocate, which reads the blacklist
InitSpecLocate ==
  /\ InitLocate
  /\ ParseIdle
  /\ EditorIdle
  /\ SignIdle
  /\ InitRegistry
  /\ KeyringIdle
  /\ ZBase32Idle
  /\ DecryptIdle
  /\ wPc = "idle"
  /\ wEmail = <<>>
  /\ wOnlyOne = FALSE
  /\ wBlacklist \in Blacklists
  /\ wTested = None
  /\ wUrl = None
  /\ wFetch = "none"
  /\ wTimer = "unarmed"
  /\ wTimerMs = 0
  /\ wStatus = 0
  /\ wTotal = 0
  /\ wResults = <<>>
  /\ wDelivered = <<>>
  /\ wData = None
  /\ wOutcome = None
  /\ wOpenAtFire = FALSE

SpecLocate == InitSpecLocate /\ [][NextLocate]_vars

InitSpecEditor == InitEditor /\ ParseIdle /\ WkdIdle /\ LocateIdle /\ DecryptIdle /\ ZBase32Idle /\ KeyringIdle /\ InitRegistry /\ SignIdle

SpecEditor == InitSpecEditor /\ [][NextEditor]_vars

\* a session in which the editor sends its plaintext again
InitSpecEditorRetry == InitEditorRetry /\ ParseIdle /\ WkdIdle /\ LocateIdle /\ DecryptIdle /\ ZBase32Idle /\ KeyringIdle /\ InitRegistry /\ SignIdle

SpecEditorRetry == InitSpecEditorRetry /\ [][NextEditor]_vars

InitSpecDecrypt == InitDecrypt /\ ParseIdle /\ WkdIdle /\ LocateIdle /\ EditorIdle /\ ZBase32Idle /\ KeyringIdle /\ InitRegistry /\ SignIdle

SpecDecrypt == InitSpecDecrypt /\ [][NextDecrypt]_vars

InitSpecZBase32 ==
  InitZBase32 /\ ParseIdle /\ WkdIdle /\ LocateIdle /\ EditorIdle /\ DecryptIdle /\ KeyringIdle /\ InitRegistry /\ SignIdle

SpecZBase32 == InitSpecZBase32 /\ [][NextZBase32]_vars

InitSpecKeyring ==
  InitKeyring /\ ParseIdle /\ WkdIdle /\ LocateIdle /\ EditorIdle /\ DecryptIdle /\ ZBase32Idle /\ InitRegistry /\ SignIdle

SpecKeyring == InitSpecKeyring /\ [][KeyringGetFprForKeyId]_vars

InitSpecRegistry ==
  InitRegistry /\ ParseIdle /\ WkdIdle /\ LocateIdle /\ EditorIdle /\ DecryptIdle /\ ZBase32Idle /\ KeyringIdle /\ SignIdle

SpecRegistry == InitSpecRegistry /\ [][NextRegistry]_vars

InitSpecSign ==
  InitSign /\ ParseIdle /\ WkdIdle /\ LocateIdle /\ EditorIdle /\ DecryptIdle /\ ZBase32Idle /\ KeyringIdle /\ InitRegistry

SpecSign == InitSpecSign /\ [][NextSign]_vars

-----------------------------------------------------------------------------
(* Claims about parseKeysForEMail, checked under SpecParse *)

\* the email of a user identity as the filter reads it
IdentityEmail(user) == MapKeyUserIds(user.userId[1])

\* C1: every key parseKeysForEMail returns (onlyOne or not) has a non-empty
\* list of user identities, each with an email equal to the queried email
\* ignoring case; a key of the response with no matching identity is never in
\* the result; and when no key of the response has a matching identity the
\* call fails.
C1_OnlyMatchingIdentities ==
  pPc = "done" =>
    LET r == pResult[1]
    IN /\ r.ok =>
            /\ Len(r.keys) > 0
            /\ \A i \in 1..Len(r.keys) :
                 /\ Len(r.keys[i].users) > 0
                 /\ r.keys[i].id \notin pDropped
                 /\ \A j \in 1..Len(r.keys[i].users) :
                      /\ r.keys[i].users[j].userId # None
                      /\ ToLowerCase(IdentityEmail(r.keys[i].users[j])) = ToLowerCase(pEmail)
       /\ pMatched = {} => ~r.ok

\* a result in which a key lost an identity and another key was dropped
C1_Witness ==
  /\ pPc = "done"
  /\ pResult[1].ok
  /\ pDropped # {}
  /\ \E i \in 1..Len(pResult[1].keys) : \E m \in pMatched :
       /\ m.id = pResult[1].keys[i].id
       /\ m.nUsers > Len(pResult[1].keys[i].users)

\* C2: with onlyOne the returned key is a best candidate among the keys with a
\* matching identity, whatever their order in the response: it is one of them,
\* it is valid if any of them is valid, and none of the same validity is
\* strictly newer.
C2_BestCandidate ==
  (pPc = "done" /\ pOnlyOne /\ pResult[1].ok) =>
    LET r == pResult[1].keys[1]
    IN /\ Len(pResult[1].keys) = 1
       /\ \E m \in pMatched : m.id = r.id
       /\ (\E m \in pMatched : m.valid) => r.status = "valid"
       /\ \A m \in pMatched : (m.valid = (r.status = "valid")) => m.created <= r.created

\* a valid key is returned although a newer, not valid one came first
C2_Witness ==
  /\ pPc = "done"
  /\ pOnlyOne
  /\ pResult[1].ok
  /\ pResult[1].keys[1].status = "valid"
  /\ \E m \in pMatched :
       /\ ~m.valid
       /\ m.created > pResult[1].keys[1].created
       /\ m.id < pResult[1].keys[1].id

-----------------------------------------------------------------------------
(* Claims about WKDLocate.lookup, checked under SpecWKD *)

\* C6: the whole lookup, body read included, is bounded by the timeout of
\* 5000 ms: a lookup that is still pending when the timer fires fails with
\* the timeout error.
C6_WholeLookupBounded ==
  /\ wTimer # "unarmed" => wTimerMs = 5000
  /\ (wTimer = "fired" /\ wOpenAtFire) => wOutcome = Some(WkdError("WKD: Timeout"))

SizeLimitError == WkdError("WKD: Response longer then the max size")

\* C7: the bounded read reads a body only of a response with status 200; it
\* fails with the size-limit error at the first chunk that takes the total
\* over 65536 bytes, reads nothing after it and yields no data; a body of at
\* most 65536 bytes is never refused for its size and is returned complete
\* and in the order of its chunks.
C7_BoundedBodyRead ==
  /\ (wPc = "reading" \/ wDelivered # <<>> \/ wData # None) => wStatus = 200
  /\ TotalBytes(wDelivered) > 65536 =>
       /\ wPc = "done"
       /\ wOutcome = Some(SizeLimitError)
       /\ wData = None
       /\ TotalBytes(SubSeq(wDelivered, 1, Len(wDelivered) - 1)) <= 65536
  /\ wOutcome = Some(SizeLimitError) => TotalBytes(wDelivered) > 65536
  /\ wData # None => wData[1] = wDelivered

\* a body of exactly 65536 bytes in more than one chunk is returned
C7_Witness ==
  /\ wData # None
  /\ Len(wData[1]) > 1
  /\ TotalBytes(wData[1]) = 65536

\* non-empty local part and non-empty domain around an '@'
WellFormedAddress(email) ==
  \E i \in AtPositions(email) : i > 1 /\ i < Len(email)

\* C8: lookup calls window.fetch only for a well-formed address whose domain
\* matches no blacklist entry ignoring case, and the host of the fetched URL
\* is the domain that was compared with the blacklist.
C8_NoFetchUnlessAllowed ==
  /\ (wFetch # "none") = (wUrl # None)
  /\ wUrl # None =>
       /\ WellFormedAddress(wEmail)
       /\ wTested = Some(wUrl[1].host)
       /\ \A i \in 1..Len(wBlacklist) :
            ToLowerCase(wBlacklist[i]) # ToLowerCase(wUrl[1].host)

\* a lookup refused for a domain that is blacklisted in another case
C8_Witness ==
  /\ wOutcome = Some(WkdError("WKD: Skipping blacklisted domain."))
  /\ wFetch = "none"
  /\ ~BlacklistedExactCase(wBlacklist, wTested[1])

-----------------------------------------------------------------------------
(* Claims about AutoLocate.locate, checked under SpecLocate *)

\* C9: no error propagates out of locate, whatever the keyserver lookup, the
\* WKD lookup and the import do.
C9_LocateNeverThrows == lReturned # "threw"

\* C10: the keyserver is asked first and only when enabled; WKD is asked only
\* when the keyserver gave no armored key, the query has an email and WKD is
\* enabled, and always for one key; importKeys is called on the main keyring
\* exactly when a source gave armored material, with that material only.
C10_LocateOrder ==
  /\ \A i \in 1..Len(lCalls) :
       /\ lCalls[i] = "keyserver" => (i = 1 /\ lPrefs.mvelo_tofu_lookup)
       /\ lCalls[i] = "wkd" =>
            /\ lKsYield = None
            /\ lEmail # None
            /\ lPrefs.wkd_lookup
            /\ wOnlyOne
            /\ wEmail = lEmail[1]
            /\ \A j \in 1..Len(lCalls) : lCalls[j] = "keyserver" => j < i
       /\ lCalls[i] = "import" => i = Len(lCalls)
  /\ (wPc # "idle") = (\E i \in 1..Len(lCalls) : lCalls[i] = "wkd")
  /\ Len(lImports) <= 1
  /\ (lImports # <<>>) = (\E i \in 1..Len(lCalls) : lCalls[i] = "import")
  /\ lImports # <<>> =>
       /\ lImports[1].keyringId = MAIN_KEYRING_ID
       /\ lImports[1].type = "public"
       /\ \/ lKsYield = Some(lImports[1].armored)
          \/ lKsYield = None /\ lWkdYield = Some(lImports[1].armored)
  /\ lPc \in {"import", "done"} =>
       ((lImports # <<>>) = (lKsYield # None \/ lWkdYield # None))

\* the keyserver gave nothing, WKD gave a key, and that key was imported
C10_Witness ==
  /\ lCalls = <<"keyserver", "wkd", "import">>
  /\ lKsYield = None
  /\ lWkdYield # None
  /\ lImports[1].armored = lWkdYield[1]
  /\ lReturned = "returned"

-----------------------------------------------------------------------------
(* Claims about the editor controller, checked under SpecEditor *)

\* the jobs whose unlock of the signing key was cancelled by the user
CancelledJobs == {j \in 1..Len(eJobs) : eJobs[j].outcome = "PWD_DIALOG_CANCEL"}

\* the promises job j settled in the given way
PromisesBy(j, state) ==
  {i \in 1..Len(ePromises) : ePromises[i].state = state /\ ePromises[i].by = j}

\* C3: when the user cancels the password prompt while a sign-and-encrypt job
\* unlocks its signing key, the job ends without the crypto engine encrypting,
\* no armored result is delivered (no 'encrypted-message' to the container, no
\* resolved promise), and 'encrypt-end' is not emitted.
C3_CancelledUnlockDeliversNothing ==
  \A j \in CancelledJobs :
    /\ eJobs[j].pc = "done"
    /\ eJobs[j].signMsg
    /\ ~eJobs[j].engine
    /\ "encrypted-message" \notin eJobs[j].contOut
    /\ "encrypt-end" \notin eJobs[j].editorOut
    /\ PromisesBy(j, "resolved") = {}

\* a sign-and-encrypt job of an encryptText call ended by a cancelled unlock
\* while the caller's promise was pending
C3_Witness ==
  \E j \in CancelledJobs :
    /\ eKind = "text"
    /\ eJobs[j].signKeyFpr # None
    /\ ePromises[eJobs[j].promise].state # "resolved"

\* C4 as stated: a cancelled password prompt is a normal abort in every caller
\* context (popup, container, encryptText): no 'error-message' to the editor or
\* the container, no 'encrypt-failed', no rejection of the caller's promise.
C4_CancelSilentEverywhere ==
  \A j \in CancelledJobs :
    /\ "error-message" \notin eJobs[j].editorOut
    /\ "error-message" \notin eJobs[j].contOut
    /\ "encrypt-failed" \notin eJobs[j].editorOut
    /\ PromisesBy(j, "rejected") = {}

\* C4, amended: a cancelled password prompt is a normal abort exactly when the
\* controller holds its editor popup at that moment: then only
\* 'hide-pwd-dialog' is emitted, nothing goes to the container and no promise
\* is rejected. Without a popup (container, encryptText, or a popup closed
\* meanwhile) it is surfaced as an error: 'error-message' and 'encrypt-failed'
\* to the editor, and 'error-message' to the container or else the rejection
\* of the result promise when that is still pending.
C4_CancelSilentOnlyWithPopup ==
  \A j \in CancelledJobs :
    IF eJobs[j].popupAtEnd
    THEN /\ eJobs[j].editorOut \subseteq {"hide-pwd-dialog", "encrypt-in-progress"}
         /\ "hide-pwd-dialog" \in eJobs[j].editorOut
         /\ eJobs[j].contOut = {}
         /\ PromisesBy(j, "rejected") = {}
    ELSE /\ {"error-message", "encrypt-failed"} \subseteq eJobs[j].editorOut
         /\ "hide-pwd-dialog" \notin eJobs[j].editorOut
         /\ IF eKind = "container"
            THEN "error-message" \in eJobs[j].contOut
            ELSE /\ ePromises[eJobs[j].promise].state # "pending"
                 /\ \A i \in PromisesBy(j, "rejected") :
                      ePromises[i].code = "PWD_DIALOG_CANCEL"

\* a container job whose cancel reached the container as an error
C4_Witness ==
  \E j \in CancelledJobs :
    /\ eKind = "container"
    /\ ~eJobs[j].popupAtEnd
    /\ "error-message" \in eJobs[j].contOut
    /\ "encrypt-failed" \in eJobs[j].editorOut

\* the keyring holds no valid encryption key for the address
NoValidKeyFor(keyringId, email) ==
  ~\E k \in eStore[keyringId].keys : k.email = email /\ k.validEncryption

\* the request just handled is an 'editor-container-encrypt' with a recipient
\* that has no valid encryption key
RecipientWithoutKey(last) ==
  /\ last.event = "editor-container-encrypt"
  /\ \E i \in 1..Len(last.recipients) :
       NoValidKeyFor(last.keyringId, last.recipients[i])

\* C5: an 'editor-container-encrypt' request with at least one recipient that
\* has no valid encryption key in the keyring emits an error with code
\* NO_KEY_FOR_RECIPIENT to the container, emits no 'get-plaintext', leaves the
\* buffered fingerprints unchanged, and starts nothing in the crypto engine.
C5_NoKeyForRecipient ==
  [][(eSeq' # eSeq /\ RecipientWithoutKey(eLast')) =>
       /\ eContOut' = Append(eContOut,
                             EdEvent("error-message", "NO_KEY_FOR_RECIPIENT"))
       /\ eEditorOut' = eEditorOut
       /\ eAwaited' = eAwaited
       /\ eKeyFprBuffer' = eKeyFprBuffer
       /\ eJobs' = eJobs
       /\ eTimers' = eTimers]_vars

\* a request failed for a recipient without key while fingerprints of an
\* earlier request were buffered
C5_Witness ==
  /\ RecipientWithoutKey(eLast)
  /\ Len(eLast.recipients) = 2
  /\ ~NoValidKeyFor(eLast.keyringId, eLast.recipients[1])
  /\ eKeyFprBuffer # None
  /\ eContOut # <<>>
  /\ eContOut[Len(eContOut)].code = "NO_KEY_FOR_RECIPIENT"
  /\ eJobs = <<>>

\* the encrypt jobs that sign and whose MIME build gave data
SignedJobs == {j \in 1..Len(eJobs) : eJobs[j].signMsg /\ eJobs[j].mime = "ok"}

\* the default key of the keyring the session used when job j started
SessionDefaultKey(j) == eStore[eJobs[j].keyringId].primary

\* C11: a signed encrypt job signs with the explicit override fingerprint when
\* one is given, otherwise with the default key of the session keyring; when
\* neither exists it fails with NO_PRIMARY_KEY_FOUND before the unlock is
\* asked for and before the crypto engine is invoked.
C11_SigningKeyChoice ==
  \A j \in SignedJobs :
    IF eJobs[j].override # None
    THEN eJobs[j].signKeyFpr = eJobs[j].override /\ eJobs[j].unlockAsked
    ELSE IF SessionDefaultKey(j) # None
    THEN eJobs[j].signKeyFpr = SessionDefaultKey(j) /\ eJobs[j].unlockAsked
    ELSE /\ eJobs[j].pc = "done"
         /\ eJobs[j].outcome = "NO_PRIMARY_KEY_FOUND"
         /\ ~eJobs[j].unlockAsked
         /\ ~eJobs[j].engine

\* a job with an override although the keyring has another default key, and
\* the override was used
C11_Witness ==
  \E j \in SignedJobs :
    /\ eJobs[j].override # None
    /\ SessionDefaultKey(j) # None
    /\ SessionDefaultKey(j) # eJobs[j].override
    /\ eJobs[j].engine
    /\ eJobs[j].signKeyFpr = eJobs[j].override

\* the encrypt jobs whose MIME builder threw or returned no data
MimeFailedJobs == {j \in 1..Len(eJobs) : eJobs[j].mime \in {"throws", "null"}}

\* C12: when the MIME builder throws or produces no data the job fails with
\* the MIME-build error, neither the unlock nor the crypto engine is invoked,
\* and no armored output is delivered (no 'encrypt-end', no
\* 'encrypted-message', no resolved promise).
C12_MimeFailureDeliversNothing ==
  \A j \in MimeFailedJobs :
    /\ eJobs[j].pc = "done"
    /\ eJobs[j].outcome = "MIME_BUILD_FAILED"
    /\ ~eJobs[j].unlockAsked
    /\ ~eJobs[j].engine
    /\ "encrypt-end" \notin eJobs[j].editorOut
    /\ "encrypted-message" \notin eJobs[j].contOut
    /\ PromisesBy(j, "resolved") = {}

\* the builder returned no data for a signed job of an encryptText call, and
\* the caller's promise was rejected with the MIME-build error
C12_Witness ==
  \E j \in MimeFailedJobs :
    /\ eKind = "text"
    /\ eJobs[j].mime = "null"
    /\ eJobs[j].signMsg
    /\ \E i \in PromisesBy(j, "rejected") : ePromises[i].code = "MIME_BUILD_FAILED"

\* the jobs whose encryption succeeded
SucceededJobs == {j \in 1..Len(eJobs) : eJobs[j].outcome = "ok"}

\* C13: when a job completes successfully, 'encrypt-end' is emitted and the
\* armored result is delivered exactly once and to exactly one caller
\* context: by 'encrypted-message' to the container when there is one,
\* otherwise by resolving the promise encrypt()/encryptText() returned.
C13_DeliveredExactlyOnce ==
  \A j \in SucceededJobs :
    /\ "encrypt-end" \in eJobs[j].editorOut
    /\ IF eKind = "container"
       THEN /\ "encrypted-message" \in eJobs[j].contOut
            /\ PromisesBy(j, "resolved") = {}
       ELSE /\ "encrypted-message" \notin eJobs[j].contOut
            /\ Cardinality(PromisesBy(j, "resolved")) = 1

\* the failures the compose session is meant to survive
RecoverableFailures == {"NO_PRIMARY_KEY_FOUND", "MIME_BUILD_FAILED", "PWD_DIALOG_CANCEL"}

\* job j is a retry: it started when every earlier attempt had ended, the one
\* before it by a recoverable failure
IsRetry(j) ==
  /\ j > 1
  /\ eJobs[j].alone
  /\ eJobs[j - 1].outcome \in RecoverableFailures

\* C14: a recoverable failure of an encrypt attempt leaves the session
\* resumable: when the user, without cancelling the editor, retries and the
\* retry succeeds, the caller receives the armored result of the retry.
C14_RetryDelivers ==
  \A j \in SucceededJobs :
    (IsRetry(j) /\ \A i \in 1..Len(ePromises) : ePromises[i].code # "EDITOR_DIALOG_CANCEL")
      => IF eKind = "container"
         THEN "encrypted-message" \in eJobs[j].contOut
         ELSE PromisesBy(j, "resolved") # {}

\* the jobs that are unlocking their signing key or encrypting
OutstandingJobs == {j \in 1..Len(eJobs) : eJobs[j].pc \in {"unlock", "engine"}}

\* C15: within one editor controller at most one job is outstanding at any
\* time: a plaintext that arrives while a previous job is still unlocking or
\* encrypting never runs concurrently with it.
C15_OneOutstandingJob ==
  /\ Cardinality(OutstandingJobs) <= 1
  /\ \A j \in 1..Len(eJobs) : eJobs[j].alone

\* the jobs whose encryption was handed to the crypto engine
EngineJobs == {j \in 1..Len(eJobs) : eJobs[j].engine}

\* C17: the encryption fingerprints handed to the crypto engine are sorted and
\* without duplicate, for every encrypt job in every caller context.
C17_FingerprintsSortedUnique ==
  \A j \in EngineJobs :
    \A a, b \in 1..Len(eJobs[j].keyFprs) :
      a < b => eJobs[j].keyFprs[a] < eJobs[j].keyFprs[b]

\* a popup job with auto-inclusion of the default key whose engine call got
\* several fingerprints
C17_Witness ==
  \E j \in EngineJobs :
    /\ eKind = "popup"
    /\ eAutoAdd
    /\ eStore[MAIN_KEYRING_ID].primary # None
    /\ Len(eJobs[j].keyFprs) >= 2

\* C18: with auto-inclusion of the sender's key configured and a default key
\* in the keyring the session operates on, the fingerprints passed to the
\* crypto engine contain that default key, in every caller context.
C18_DefaultKeyIncluded ==
  \A j \in EngineJobs :
    (eAutoAdd /\ SessionDefaultKey(j) # None)
      => \E a \in 1..Len(eJobs[j].keyFprs) :
           eJobs[j].keyFprs[a] = SessionDefaultKey(j)[1]

-----------------------------------------------------------------------------
(* Claims about the decrypt path, checked under SpecDecrypt *)

\* the events that forward decrypted content to the editor
ForwardedEvents ==
  {i \in 1..Len(dEditorOut) :
     dEditorOut[i] \in {"set-text", "set-attachment", "decrypt-end"}}

\* the decryption result carries a signature list whose first signature is valid
ValidSelfSignature ==
  /\ dDecrypted # None
  /\ dDecrypted[1].signatures # None
  /\ dDecrypted[1].signatures[1] # <<>>
  /\ Head(dDecrypted[1].signatures[1]) = "true"

\* C16: in a draft restore (armoredDraft set) 'set-text', 'set-attachment' and
\* 'decrypt-end' reach the editor only if the decryption result carries a
\* valid self-signature; when the signature list is missing or empty or the
\* signature is invalid, the run ends with 'decrypt-failed' and forwards
\* neither text nor attachment.
C16_DraftNeedsValidSignature ==
  dOptions.armoredDraft =>
    /\ ForwardedEvents # {} => ValidSelfSignature
    /\ (dPc = "done" /\ dDecrypted # None /\ ~ValidSelfSignature) =>
         /\ dEditorOut[Len(dEditorOut)] = "decrypt-failed"
         /\ ForwardedEvents = {}

\* a draft whose result carries two signatures, the first one valid, has been
\* restored with its text and an attachment
C16_Witness ==
  /\ dPc = "done"
  /\ dOptions.armoredDraft
  /\ ValidSelfSignature
  /\ Len(dDecrypted[1].signatures[1]) = 2
  /\ \E i, j \in ForwardedEvents :
       /\ dEditorOut[i] = "set-text"
       /\ dEditorOut[j] = "set-attachment"
  /\ dEditorOut[Len(dEditorOut)] = "decrypt-end"

-----------------------------------------------------------------------------
(* Claims about encodeZBase32, checked under SpecZBase32 *)

\* the alphabet of Z-base-32, 'ybndrfg8ejkmcpqxot1uwisza345h769'
ZBase32Alphabet ==
  <<"y", "b", "n", "d", "r", "f", "g", "8", "e", "j", "k", "m", "c", "p", "q", "x",
    "o", "t", "1", "u", "w", "i", "s", "z", "a", "3", "4", "5", "h", "7", "6", "9">>

\* the bits of the bytes, the most significant bit of each byte first
DataBits(data) ==
  [i \in 1..(8 * Len(data)) |->
     (data[((i - 1) \div 8) + 1] \div (2 ^ (7 - ((i - 1) % 8)))) % 2]

\* bit i of the input, 0 past its end
PaddedBit(data, i) == IF i <= 8 * Len(data) THEN DataBits(data)[i] ELSE 0

\* the value of the g-th group of five bits
GroupValue(data, g) ==
  16 * PaddedBit(data, 5 * g - 4) + 8 * PaddedBit(data, 5 * g - 3)
    + 4 * PaddedBit(data, 5 * g - 2) + 2 * PaddedBit(data, 5 * g - 1)
    + PaddedBit(data, 5 * g)

\* ceil(8n/5)
EncodedLength(n) == (8 * n + 4) \div 5

\* the reference encoding, computed without a shift buffer
ZBase32Reference(data) ==
  [g \in 1..EncodedLength(Len(data)) |-> ZBase32Alphabet[GroupValue(data, g) + 1]]

\* C19: encodeZBase32 agrees with the reference Z-base-32 encoding: the bits
\* are taken most significant bit first in groups of five, the last group is
\* padded with zero bits, each group is mapped through the alphabet
\* 'ybndrfg8ejkmcpqxot1uwisza345h769', no padding character is emitted, n bytes
\* give ceil(8n/5) characters, the empty input gives the empty string, and the
\* 32 bit shift buffer changes no result (what the loop has emitted is always
\* a prefix of the reference encoding).
C19_ZBase32MatchesReference ==
  /\ zPc = "loop" =>
       /\ Len(zResult) <= EncodedLength(Len(zData))
       /\ zResult = SubSeq(ZBase32Reference(zData), 1, Len(zResult))
  /\ zPc = "done" =>
       /\ zResult = ZBase32Reference(zData)
       /\ Len(zResult) = EncodedLength(Len(zData))
       /\ \A i \in 1..Len(zResult) : \E a \in 1..32 : zResult[i] = ZBase32Alphabet[a]
       /\ zData = <<>> => zResult = <<>>

\* an input of six bytes that starts with 0xff has been encoded with a padded
\* last group, after shifts of the buffer dropped bits
C19_Witness ==
  /\ zPc = "done"
  /\ Len(zData) = 6
  /\ zData[1] = 255
  /\ zWrapped
  /\ zBuffer < 0
  /\ Len(zResult) = 10

-----------------------------------------------------------------------------
(* Claims about KeyringBase, checked under SpecKeyring *)

\* the keys of the keyring that have a key packet or sub key packet of that id
KeysWithId(keyId) ==
  {i \in 1..Len(kKeystore) :
     \/ kKeystore[i].keyId = keyId
     \/ \E s \in 1..Len(kKeystore[i].subKeys) : kKeystore[i].subKeys[s].keyId = keyId}

\* the fingerprints of the packets of a key that have that id
FprsWithId(key, keyId) ==
  {f \in {key.fpr} : key.keyId = keyId}
    \cup {key.subKeys[s].fpr : s \in {t \in 1..Len(key.subKeys) : key.subKeys[t].keyId = keyId}}

\* C20: getFprForKeyId(keyId) returns the fingerprint of the key packet or sub
\* key packet with that id when exactly one key of the keyring matches, fails
\* with LONG_KEY_ID_COLLISION when more than one key matches and with
\* NO_KEY_FOUND_FOR_ID when none matches; it never returns a fingerprint while
\* several keys match.
C20_FprForKeyId ==
  \A c \in 1..Len(kCalls) :
    LET call == kCalls[c]
        hits == KeysWithId(call.keyId)
    IN  /\ hits = {} <=> call.code = "NO_KEY_FOUND_FOR_ID"
        /\ Cardinality(hits) > 1 <=> call.code = "LONG_KEY_ID_COLLISION"
        /\ Cardinality(hits) = 1 <=>
             /\ call.code = "OK"
             /\ \E i \in hits : call.fpr \in FprsWithId(kKeystore[i], call.keyId)

\* on one keyring a lookup has returned the fingerprint of a sub key packet and
\* another has failed because a sub key id is shared by two keys
C20_Witness ==
  \E c, d \in 1..Len(kCalls) :
    /\ kCalls[c].code = "OK"
    /\ \E i \in 1..Len(kKeystore) : \E s \in 1..Len(kKeystore[i].subKeys) :
         kKeystore[i].subKeys[s].fpr = kCalls[c].fpr
    /\ kCalls[d].code = "LONG_KEY_ID_COLLISION"
    /\ \A i \in KeysWithId(kCalls[d].keyId) : kKeystore[i].keyId # kCalls[d].keyId

-----------------------------------------------------------------------------
(* Claims about the default key and the key data, checked under SpecRegistry *)

\* the four conditions of a default key
FourConditions(key) ==
  /\ key.status = "valid"
  /\ key.encryption
  /\ key.signing
  /\ ~key.pseudoRevoked

\* C21: validateDefaultKey(key) is true exactly when the primary key verifies
\* as valid, an encryption key packet exists, a signing key packet exists and
\* the key is not pseudo-revoked for the keyring, so that one condition made
\* false makes the result false; getValidSigningKeys lists exactly the private
\* keys that pass.
C21_ValidateDefaultKey ==
  /\ rLast.op = "getKeyDetails" =>
       \A key \in rKeys :
         key.fpr = rLast.arg => (rLast.result = "true" <=> FourConditions(key))
  /\ rLast.op = "getValidSigningKeys" =>
       rLast.result = {key.fpr : key \in {k \in rKeys : k.type = "private" /\ FourConditions(k)}}

\* validateDefaultKey has turned down a key for its pseudo-revocation alone
C21_Witness ==
  /\ rLast.op = "getKeyDetails"
  /\ rLast.result # "true"
  /\ \E key \in rKeys :
       /\ key.fpr = rLast.arg
       /\ key.status = "valid" /\ key.encryption /\ key.signing /\ key.pseudoRevoked

\* C22: the default key of a keyring, if one is set, satisfies key validity in
\* every reachable state, after any setDefaultKey, import and removal, and a
\* read that reports a default key (hasDefaultKey) never reports a key that
\* fails validity at that time.
C22_DefaultKeyValid ==
  LET DefaultValid == \E key \in rKeys : key.fpr = rDefault[1] /\ FourConditions(key)
  IN  /\ rDefault # None => DefaultValid
      /\ (rLast.op = "hasDefaultKey" /\ rLast.result) => DefaultValid

\* C23: every user identity in the result of getKeyData has an email address:
\* with allUsers the invalid, repeated and email-less identities are left out,
\* without it each entry has exactly the primary identity, and an email-less
\* one is dropped as well.
C23_KeyDataUsersHaveEmail ==
  rLast.op = "getKeyData" =>
    \A entry \in rLast.result :
      /\ \A i \in 1..Len(entry.users) : entry.users[i].email # <<>>
      /\ ~rLast.arg => Len(entry.users) <= 1

-----------------------------------------------------------------------------
(* Claims about container requests and the reason of the unlock *)

\* C24: the fingerprints a container job encrypts to are the ones resolved from
\* the request that job answers; a second container request arriving between
\* the 'get-plaintext' and the 'editor-plaintext' of the first does not change
\* the recipients of the first job.
C24_JobKeepsItsFingerprints ==
  eKind = "container" =>
    \A j \in EngineJobs : eJobs[j].request.keyFprs = Some(eJobs[j].keyFprs)

\* C29: the reason handed to the unlock collaborator for a signed encrypt job
\* is PWD_DIALOG_REASON_CREATE_DRAFT only when the job is a draft creation;
\* every other signed job gets PWD_DIALOG_REASON_SIGN (the session options of
\* the model carry no reason), also after an earlier create-draft request.
C29_DraftReasonOnlyForDrafts ==
  \A j \in 1..Len(eJobs) :
    eJobs[j].unlockAsked =>
      /\ eJobs[j].reason = "PWD_DIALOG_REASON_CREATE_DRAFT" => eJobs[j].request.draft
      /\ ~eJobs[j].request.draft => eJobs[j].reason = "PWD_DIALOG_REASON_SIGN"

-----------------------------------------------------------------------------
(* Claims about the sign-only flow, checked under SpecSign *)

\* C25: the controller keeps no key object across a suspension point: the key
\* that signs is the one the keyring holds when the signature is made, so a key
\* removed from or replaced in the keyring between 'sign-only' and the arrival
\* of the plaintext is not the one used to sign.
C25_SignsWithCurrentKey ==
  sSignCall # None => sSignCall[1].key = sSignCall[1].current

\* C28: in the sign-only flow 'get-plaintext' is emitted only after the signing
\* key has been unlocked; when the unlock is cancelled or fails, no plaintext
\* is requested and model.signMessage is not called with the locked key.
C28_PlaintextOnlyAfterUnlock ==
  /\ (\E i \in 1..Len(sOut) : sOut[i] = "get-plaintext") => sUnlock = "ok"
  /\ sSignCall # None => sUnlock = "ok"

-----------------------------------------------------------------------------
(* Claims about the 800 ms timer and the cancel of the popup *)

\* C26: 'encrypt-in-progress' is advisory: it is emitted for a job only while
\* that job is dispatched and has not completed, it does not change the state
\* or the outcome of the job, and it is never emitted for a job that has
\* already finished with 'encrypt-end' or 'encrypt-failed'.
C26_InProgressOnlyWhileRunning ==
  [][\A j \in 1..Len(eJobs) :
       ("encrypt-in-progress" \in eJobs'[j].editorOut
          /\ "encrypt-in-progress" \notin eJobs[j].editorOut) =>
         /\ eJobs[j].pc = "engine"
         /\ eJobs'[j].pc = eJobs[j].pc
         /\ eJobs'[j].outcome = eJobs[j].outcome]_vars

\* C27: when a WKD lookup has failed with the timeout error, the fetch it
\* started is abandoned: no fetch of the lookup is still pending, and a
\* response that arrives later does not change the outcome of the lookup.
C27_TimeoutAbandonsFetch ==
  /\ [](wOutcome = Some(WkdError("WKD: Timeout")) => wFetch # "pending")
  /\ [][wOutcome = Some(WkdError("WKD: Timeout")) => wOutcome' = wOutcome]_vars

\* the caller's promise was rejected by a cancel of the popup
CancelledPromises == {i \in 1..Len(ePromises) : ePromises[i].code = "EDITOR_DIALOG_CANCEL"}

-----------------------------------------------------------------------------
(* Claims about the result handle and the order of the decrypt events *)

\* C31: whenever the controller holds its popup the result handle is set, so
\* 'editor-cancel' finds a handle to reject; and in a session without
\* container port every run of 'editor-plaintext' that has ended found the
\* result handle set, a handle of a promise that encrypt() or encryptText()
\* created.
C31_ResultHandleSet ==
  /\ eEditorPopup => eEncryptDone \in 1..Len(ePromises)
  /\ eKind # "container" =>
       \A j \in 1..Len(eJobs) :
         eJobs[j].pc = "done" => eJobs[j].promise \in 1..Len(ePromises)

\* a run failed and rejected the result while the popup stays held
C31_Witness ==
  \E j \in 1..Len(eJobs) :
    /\ eKind = "popup"
    /\ eEditorPopup
    /\ eJobs[j].pc = "done"
    /\ eJobs[j].promise = eEncryptDone
    /\ PromisesBy(j, "rejected") = {eEncryptDone}

\* the positions of the given events in what the editor has seen
DecryptEventsAt(events) == {i \in 1..Len(dEditorOut) : dEditorOut[i] \in events}

\* C32: when the options carry a draft or a quoted mail, 'set-init-data' and
\* the optional 'decrypt-in-progress' are emitted before the delayed decrypt
\* attempt starts and so before every event of the attempt; 'set-text' and
\* 'set-attachment' come before the one 'decrypt-end' or 'decrypt-failed'
\* that ends the attempt, never both and never two; the draft is the text
\* that is scheduled when both are present, and 'set-init-data' carries the
\* predefined text only when the options have neither.
C32_DecryptEventOrder ==
  LET init == DecryptEventsAt({"set-init-data", "decrypt-in-progress"})
      content == DecryptEventsAt({"set-text", "set-attachment"})
      ends == DecryptEventsAt({"decrypt-end", "decrypt-failed"})
      attempt == content \cup ends
                   \cup DecryptEventsAt({"show-pwd-dialog", "hide-pwd-dialog"})
  IN dPc \notin {"idle", "init"} =>
       /\ dInit.scheduled =
            (IF dOptions.armoredDraft THEN "armoredDraft"
             ELSE IF dOptions.quotedMail THEN "quotedMail" ELSE "none")
       /\ dInit.text <=>
            (dOptions.predefinedText /\ ~dOptions.armoredDraft /\ ~dOptions.quotedMail)
       /\ Cardinality(DecryptEventsAt({"set-init-data"})) = 1
       /\ \A i \in init, j \in attempt : i < j
       /\ dPc = "timer" => attempt = {}
       /\ \A i \in content, j \in ends : i < j
       /\ Cardinality(ends) <= 1
       /\ dInit.scheduled = "none" => attempt = {}
       /\ dInit.scheduled # "none" => (ends # {} <=> dPc = "done")

\* a large draft in a container session, with a quoted mail and a predefined
\* text in the options too, was shown and its attempt has ended
C32_Witness ==
  /\ dPc = "done"
  /\ dOptions.armoredDraft /\ dOptions.quotedMail /\ dOptions.predefinedText
  /\ dInit.scheduled = "armoredDraft"
  /\ DecryptEventsAt({"decrypt-in-progress"}) # {}
  /\ DecryptEventsAt({"set-text"}) # {}
  /\ DecryptEventsAt({"decrypt-end"}) # {}

====
